---- MODULE Spec2Model ----
(***************************************************************************)
(* TuxTray: the telemetry sampler (src/src/system_monitor.py), the state   *)
(* classifier (same file), the animation scheduler                         *)
(* (src/src/animation_engine.py) and the application that drives them from *)
(* two timers (src/src/main.py), as state machines.                        *)
(*                                                                         *)
(* Numbers.  cpu and ram percentages are integers.  A network rate is the  *)
(* exact quotient the code computes, kept as a fraction [n, d] with d > 0. *)
(* Python dicts are functions with a finite domain of strings; dict.get    *)
(* is Get.  Optional values are <<>> (None) or a non-empty tuple.          *)
(***************************************************************************)
EXTENDS Integers, Sequences, FiniteSets, TLC

VARIABLES
    \* ---- classifier calls (arguments and result of one call)
    pc,                 \* "input": arguments chosen; "done": result returned
    mode,               \* the mode argument
    stats,              \* the SystemStats argument
    thresholds,         \* the thresholds argument (a dict)
    label,              \* the returned label
    analysis,           \* what get_emotion_analysis returned
    calls,              \* history of the classifier calls (not program state)
    \* ---- SystemMonitor instance and the OS it reads
    last_network_io,    \* self._last_network_io: <<>> or <<sent, recv>>
    last_network_time,  \* self._last_network_time: <<>> or <<t>>
    cpu_percent_cache,  \* self._cpu_percent_cache
    clock,              \* time.time(), in clock units
    os_sent,            \* psutil: cumulative bytes sent
    os_recv,            \* psutil: cumulative bytes received
    sample,             \* what the last get_system_stats call returned
    ev,                 \* the last call: what the OS answered, and the fields before it
    hist,               \* history of the OS answers (not program state)
    \* ---- AnimationEngine instance, its Animation objects, its configuration
    engine,             \* the fields of the AnimationEngine and the Animation objects
    aev,                \* the last engine call: its result and the fields before it
    \* ---- TuxTrayApp instance (src/src/main.py)
    app                 \* its poll timer, the slot the main thread is in, and what
                        \* has happened so far

clsVars == <<pc, mode, stats, thresholds, label, analysis, calls>>
monVars == <<last_network_io, last_network_time, cpu_percent_cache,
             clock, os_sent, os_recv, sample, ev, hist>>
animVars == <<engine, aev, app>>
vars == <<clsVars, monVars, animVars>>

-----------------------------------------------------------------------------
(* Fractions and dicts *)

Rat(n, d) == [n |-> n, d |-> d]

\* x >= t, x <= t, x > t for a fraction x (x.d > 0) and an integer t
RGeq(x, t) == x.n >= t * x.d
RLeq(x, t) == x.n <= t * x.d
RGt(x, t) == x.n > t * x.d
REq(x, y) == x.n * y.d = y.n * x.d

None == <<>>
EmptyDict == [k \in {} |-> 0]

\* dict.get(key, default)
Get(dict, key, default) == IF key \in DOMAIN dict THEN dict[key] ELSE default

SystemStats(cpu, ram, net, ts) ==
    [cpu_percent |-> cpu, ram_percent |-> ram, network_kbps |-> net,
     timestamp |-> ts]

\* QPixmap(): the null pixmap
NullPixmap == <<>>

\* the AnimationEngine fields as __init__ sets them, lines 76-80, with the
\* timer of lines 83-85, the Animation objects it holds (objects) and the
\* frames it has emitted during the call in progress (emitted)
NewEngine(configured_skin) ==
    [animations |-> EmptyDict,
     current_skin |-> "",
     current_animation_name |-> "idle",
     current_animation |-> None,
     timer_active |-> FALSE,
     config_current_skin |-> configured_skin,
     objects |-> EmptyDict,
     emitted |-> <<>>]

\* aev when no engine call is in progress; pre is the active Animation before
\* the call
NoAnimEvent == [op |-> "none", arg |-> "", ret |-> FALSE, pre |-> None]

\* the scheduler when no scheduler runs
\* TuxTrayApp before start(): the poll timer of lines 38-40 is not running and
\* the main thread is in no slot
AppIdle ==
    [started |-> FALSE, poll_timer |-> FALSE, slot |-> "loop", new_state |-> "",
     exiting |-> FALSE, saved |-> None, changed_at |-> 0, failed_poll |-> FALSE]

AnimIdle ==
    /\ engine = NewEngine("default")
    /\ aev = NoAnimEvent
    /\ app = AppIdle

\* analysis before get_emotion_analysis has returned
NoAnalysis == <<>>

\* calls before any classifier call: how many calls were made, what the first
\* determine_animation_state and the first get_emotion_analysis returned, and
\* the cached processor reading at the first and at the latest call
NoCalls ==
    [n |-> 0, label |-> "none", analysis |-> NoAnalysis,
     first_cache |-> 0, last_cache |-> 0]

\* the classifier when no classifier call is made
ClsIdle ==
    /\ pc = "off"
    /\ mode = "cpu"
    /\ stats = SystemStats(0, 0, Rat(0, 1), 0)
    /\ thresholds = EmptyDict
    /\ label = "none"
    /\ analysis = NoAnalysis
    /\ calls = NoCalls

-----------------------------------------------------------------------------
(* State classifier: SystemMonitor.determine_emotion_state and             *)
(* SystemMonitor.determine_animation_state                                 *)

\* the overloaded rule, lines 174-183
OverloadedCond(st, emotion_thresholds) ==
    LET overload_config == Get(emotion_thresholds, "overloaded", EmptyDict)
        any_critical_threshold == Get(overload_config, "any_critical_threshold", 85)
    IN  \/ st.cpu_percent >= Get(overload_config, "cpu_critical", 90)
        \/ st.ram_percent >= Get(overload_config, "ram_critical", 90)
        \/ RGeq(st.network_kbps, Get(overload_config, "network_critical_kbps", 2000))
        \/ st.cpu_percent >= any_critical_threshold
        \/ st.ram_percent >= any_critical_threshold

\* high_resources counted with > instead of >=
M_HighResourcesStrict(st, emotion_thresholds) ==
    LET stressed_config == Get(emotion_thresholds, "stressed", EmptyDict)
    IN  (IF st.cpu_percent > Get(stressed_config, "cpu_high", 70) THEN 1 ELSE 0)
      + (IF st.ram_percent > Get(stressed_config, "ram_high", 75) THEN 1 ELSE 0)
      + (IF RGt(st.network_kbps, Get(stressed_config, "network_high_kbps", 800))
         THEN 1 ELSE 0)

\* high_resources, lines 186-193
HighResources(st, emotion_thresholds) ==
    LET stressed_config == Get(emotion_thresholds, "stressed", EmptyDict)
    IN  (IF st.cpu_percent >= Get(stressed_config, "cpu_high", 70) THEN 1 ELSE 0)
      + (IF st.ram_percent >= Get(stressed_config, "ram_high", 75) THEN 1 ELSE 0)
      + (IF RGeq(st.network_kbps, Get(stressed_config, "network_high_kbps", 800))
         THEN 1 ELSE 0)

\* the stressed rule asking for all three metrics
M_StressedNeedsThree(st, emotion_thresholds) == HighResources(st, emotion_thresholds) >= 3

\* the stressed rule, line 195
StressedCond(st, emotion_thresholds) == HighResources(st, emotion_thresholds) >= 2

\* the busy rule with the network compared against the unscaled threshold
M_BusyUnscaledNetwork(st, emotion_thresholds) ==
    LET busy_config == Get(emotion_thresholds, "busy", EmptyDict)
        single_threshold == Get(busy_config, "single_resource_threshold", 60)
    IN  \/ st.cpu_percent >= single_threshold
        \/ st.ram_percent >= single_threshold
        \/ RGeq(st.network_kbps, single_threshold)

\* the busy rule, lines 199-201
BusyCond(st, emotion_thresholds) ==
    LET busy_config == Get(emotion_thresholds, "busy", EmptyDict)
        single_threshold == Get(busy_config, "single_resource_threshold", 60)
    IN  \/ st.cpu_percent >= single_threshold
        \/ st.ram_percent >= single_threshold
        \/ RGeq(st.network_kbps, single_threshold * 10)

\* the calm rule met by any one metric instead of all three
M_CalmAnyMetric(st, emotion_thresholds) ==
    LET calm_config == Get(emotion_thresholds, "calm", EmptyDict)
    IN  \/ st.cpu_percent <= Get(calm_config, "cpu_max", 20)
        \/ st.ram_percent <= Get(calm_config, "ram_max", 30)
        \/ RLeq(st.network_kbps, Get(calm_config, "network_max_kbps", 50))

\* the calm rule, lines 205-208
CalmCond(st, emotion_thresholds) ==
    LET calm_config == Get(emotion_thresholds, "calm", EmptyDict)
    IN  /\ st.cpu_percent <= Get(calm_config, "cpu_max", 20)
        /\ st.ram_percent <= Get(calm_config, "ram_max", 30)
        /\ RLeq(st.network_kbps, Get(calm_config, "network_max_kbps", 50))

\* the cascade with the stressed rule tried before the overloaded rule
M_StressedFirst(st, emotion_thresholds) ==
    IF StressedCond(st, emotion_thresholds) THEN "stressed"
    ELSE IF OverloadedCond(st, emotion_thresholds) THEN "overloaded"
    ELSE IF BusyCond(st, emotion_thresholds) THEN "busy"
    ELSE IF CalmCond(st, emotion_thresholds) THEN "calm"
    ELSE "active"

\* the cascade without its final return: Python falls off the end with None
M_NoDefaultReturn(st, emotion_thresholds) ==
    IF OverloadedCond(st, emotion_thresholds) THEN "overloaded"
    ELSE IF StressedCond(st, emotion_thresholds) THEN "stressed"
    ELSE IF BusyCond(st, emotion_thresholds) THEN "busy"
    ELSE IF CalmCond(st, emotion_thresholds) THEN "calm"
    ELSE "None"

determine_emotion_state(st, emotion_thresholds) ==
    IF OverloadedCond(st, emotion_thresholds) THEN "overloaded"
    ELSE IF StressedCond(st, emotion_thresholds) THEN "stressed"
    ELSE IF BusyCond(st, emotion_thresholds) THEN "busy"
    ELSE IF CalmCond(st, emotion_thresholds) THEN "calm"
    ELSE "active"

\* the usage compared in a legacy mode, lines 132-145
LegacyUsage(st, m) ==
    CASE m = "cpu" -> Rat(st.cpu_percent, 1)
      [] m = "ram" -> Rat(st.ram_percent, 1)
      [] m = "network" -> st.network_kbps

\* one fallback for the idle threshold of every mode
M_IdleThresholdOneDefault(m, thr) ==
    CASE m = "cpu" -> Get(thr, "idle", 30)
      [] m = "ram" -> Get(thr, "idle", 30)
      [] m = "network" -> Get(thr, "idle_kbps", 30)

LegacyIdleThreshold(m, thr) ==
    CASE m = "cpu" -> Get(thr, "idle", 30)
      [] m = "ram" -> Get(thr, "idle", 40)
      [] m = "network" -> Get(thr, "idle_kbps", 100)

LegacyWalkThreshold(m, thr) ==
    CASE m = "cpu" -> Get(thr, "walk", 80)
      [] m = "ram" -> Get(thr, "walk", 85)
      [] m = "network" -> Get(thr, "walk_kbps", 1000)

\* the comparisons made with > instead of >=
M_LegacyStrict(usage, idle_threshold, walk_threshold) ==
    IF RGt(usage, walk_threshold) THEN "run"
    ELSE IF RGt(usage, idle_threshold) THEN "walk"
    ELSE "idle"

\* the two branches tried in the wrong order
M_LegacyIdleFirst(usage, idle_threshold, walk_threshold) ==
    IF RGeq(usage, idle_threshold) THEN "walk"
    ELSE IF RGeq(usage, walk_threshold) THEN "run"
    ELSE "idle"

\* lines 150-156
LegacyLabel(usage, idle_threshold, walk_threshold) ==
    IF RGeq(usage, walk_threshold) THEN "run"
    ELSE IF RGeq(usage, idle_threshold) THEN "walk"
    ELSE "idle"

\* the classifier taking the processor load from the sampler's cache instead
\* of from its argument
M_ClassifyCachedReading(st, m, thr) ==
    LET cached == [st EXCEPT !.cpu_percent = cpu_percent_cache]
    IN  IF m = "emotion" THEN determine_emotion_state(cached, thr)
        ELSE IF m \in {"cpu", "ram", "network"}
             THEN LegacyLabel(LegacyUsage(cached, m), LegacyIdleThreshold(m, thr),
                              LegacyWalkThreshold(m, thr))
        ELSE "idle"

\* determine_animation_state, lines 115-156
determine_animation_state(st, m, thr) ==
    IF m = "emotion" THEN determine_emotion_state(st, thr)
    ELSE IF m \in {"cpu", "ram", "network"}
         THEN LegacyLabel(LegacyUsage(st, m), LegacyIdleThreshold(m, thr),
                          LegacyWalkThreshold(m, thr))
    ELSE "idle"

\* x + y for two fractions
RAdd(x, y) == Rat(x.n * y.d + y.n * x.d, x.d * y.d)

\* min(100, x), lines 229-231
Min100(x) == IF RGt(x, 100) THEN Rat(100, 1) ELSE x

\* round(x, 1), lines 237-241, and the format {x:.1f}, for x >= 0: the nearest tenth, a tie
\* going to the even tenth
Round1(x) ==
    LET t == x.n * 10
        q == t \div x.d
        rem == t % x.d
    IN  Rat(IF 2 * rem < x.d THEN q
            ELSE IF 2 * rem > x.d THEN q + 1
            ELSE IF q % 2 = 0 THEN q ELSE q + 1,
            10)

\* _identify_active_stressors, lines 247-258: the list of messages, each a
\* prefix and the value it formats
identify_active_stressors(st) ==
    (IF st.cpu_percent > 70
     THEN << <<"High CPU", Round1(Rat(st.cpu_percent, 1))>> >> ELSE <<>>)
    \o (IF st.ram_percent > 75
        THEN << <<"High RAM", Round1(Rat(st.ram_percent, 1))>> >> ELSE <<>>)
    \o (IF RGt(st.network_kbps, 800)
        THEN << <<"High Network", Round1(st.network_kbps)>> >> ELSE <<>>)

\* the analysis with the network level left unclamped
M_AnalysisUnclampedNetwork(st, emotion_thresholds) ==
    LET emotion == determine_emotion_state(st, emotion_thresholds)
        cpu_stress == Min100(Rat(st.cpu_percent, 1))
        ram_stress == Min100(Rat(st.ram_percent, 1))
        network_stress == Rat(st.network_kbps.n, st.network_kbps.d * 20)
        total == RAdd(RAdd(cpu_stress, ram_stress), network_stress)
        overall_stress == Rat(total.n, total.d * 3)
    IN  [emotion |-> emotion,
         overall_stress |-> Round1(overall_stress),
         resource_levels |-> [cpu |-> Round1(cpu_stress), ram |-> Round1(ram_stress),
                              network |-> Round1(network_stress)],
         active_stressors |-> identify_active_stressors(st),
         description |-> Get(Get(emotion_thresholds, emotion, EmptyDict), "description",
                             <<"System in", emotion, "state">>)]

\* the analysis naming the stressors by the configured _high cutoffs
M_AnalysisConfiguredStressors(st, emotion_thresholds) ==
    LET emotion == determine_emotion_state(st, emotion_thresholds)
        stressed_config == Get(emotion_thresholds, "stressed", EmptyDict)
        cpu_stress == Min100(Rat(st.cpu_percent, 1))
        ram_stress == Min100(Rat(st.ram_percent, 1))
        network_stress == Min100(Rat(st.network_kbps.n, st.network_kbps.d * 20))
        total == RAdd(RAdd(cpu_stress, ram_stress), network_stress)
        overall_stress == Rat(total.n, total.d * 3)
    IN  [emotion |-> emotion,
         overall_stress |-> Round1(overall_stress),
         resource_levels |-> [cpu |-> Round1(cpu_stress), ram |-> Round1(ram_stress),
                              network |-> Round1(network_stress)],
         active_stressors |->
            (IF st.cpu_percent > Get(stressed_config, "cpu_high", 70)
             THEN << <<"High CPU", Round1(Rat(st.cpu_percent, 1))>> >> ELSE <<>>)
            \o (IF st.ram_percent > Get(stressed_config, "ram_high", 75)
                THEN << <<"High RAM", Round1(Rat(st.ram_percent, 1))>> >> ELSE <<>>)
            \o (IF RGt(st.network_kbps, Get(stressed_config, "network_high_kbps", 800))
                THEN << <<"High Network", Round1(st.network_kbps)>> >> ELSE <<>>),
         description |-> Get(Get(emotion_thresholds, emotion, EmptyDict), "description",
                             <<"System in", emotion, "state">>)]

\* get_emotion_analysis, lines 214-245
get_emotion_analysis(st, emotion_thresholds) ==
    LET emotion == determine_emotion_state(st, emotion_thresholds)
        cpu_stress == Min100(Rat(st.cpu_percent, 1))
        ram_stress == Min100(Rat(st.ram_percent, 1))
        network_stress == Min100(Rat(st.network_kbps.n, st.network_kbps.d * 20))
        total == RAdd(RAdd(cpu_stress, ram_stress), network_stress)
        overall_stress == Rat(total.n, total.d * 3)
    IN  [emotion |-> emotion,
         overall_stress |-> Round1(overall_stress),
         resource_levels |-> [cpu |-> Round1(cpu_stress), ram |-> Round1(ram_stress),
                              network |-> Round1(network_stress)],
         active_stressors |-> identify_active_stressors(st),
         description |-> Get(Get(emotion_thresholds, emotion, EmptyDict), "description",
                             <<"System in", emotion, "state">>)]

-----------------------------------------------------------------------------
(* Telemetry sampler: SystemMonitor.__init__, _init_network_baseline,      *)
(* get_cpu_usage, get_ram_usage, get_network_usage, get_system_stats       *)

\* The clock counts units of 1/TicksPerMs millisecond; time.time() is
\* clock / (1000 * TicksPerMs) seconds.
TicksPerMs == 2

\* the clock when the program starts
Epoch == 100

\* time.time() * 1000 truncated, lines 50 and 63 of animation_engine.py
NowMs(now) == now \div TicksPerMs

\* bounds of the environment
MaxClock == 3
MaxSent == 2
MaxRecv == 1
MaxCpuReading == 2
MaxRamReading == 1

\* an answer of psutil.cpu_percent / psutil.virtual_memory: a value or an exception
Failed == [exc |-> TRUE, val |-> 0]
Read(v) == [exc |-> FALSE, val |-> v]
CpuReads == {Failed} \cup {Read(v) : v \in 0..MaxCpuReading}
RamReads == {Failed} \cup {Read(v) : v \in 1..MaxRamReading}
\* an answer of psutil.net_io_counters: the counters, None, or an exception
NetReads == {"ok", "none", "raise"}

\* what a getter hands back: a value, or an exception that left it
Return(v) == [raised |-> FALSE, val |-> v]
Raise == [raised |-> TRUE, val |-> 0]

Zero == Rat(0, 1)

\* max(0, kbps), line 98
Max0(x) == IF x.n < 0 THEN Zero ELSE x

\* (total_bytes / 1024) / time_elapsed, line 97, for time_elapsed = ticks clock units
Kbps(total_bytes, ticks) == Rat(total_bytes * 1000 * TicksPerMs, 1024 * ticks)

\* construction that takes no baseline
M_InitNoBaseline(read, sent, recv, now) == [io |-> None, tm |-> None]

\* _init_network_baseline, lines 33-43: the two fields after it
InitNetworkBaseline(read, sent, recv, now) ==
    IF read = "ok" THEN [io |-> <<sent, recv>>, tm |-> <<now>>]
    ELSE [io |-> None, tm |-> None]

\* the cache overwritten by a reading of 0 (>= 0 instead of > 0)
M_CacheZero(cache, read) ==
    IF read.exc THEN [ret |-> Return(cache), cache |-> cache]
    ELSE [ret |-> Return(read.val), cache |-> read.val]

\* get_cpu_usage, lines 45-58: the value returned and the cache after it
get_cpu_usage(cache, read) ==
    IF read.exc THEN [ret |-> Return(cache), cache |-> cache]
    ELSE LET c == IF read.val > 0 THEN read.val ELSE cache
         IN  [ret |-> Return(c), cache |-> c]

\* the memory read without its exception handler
M_RamNoExcept(read) ==
    IF read.exc THEN Raise ELSE Return(read.val)

\* get_ram_usage, lines 60-67
get_ram_usage(read) ==
    IF read.exc THEN Return(0) ELSE Return(read.val)

\* a read answered with None dropping the stored counters
M_NetworkNoneDropsCounters(io, tm, read, sent, recv, now) ==
    IF read = "raise" THEN [ret |-> Return(Zero), io |-> io, tm |-> tm]
    ELSE IF read = "none" THEN [ret |-> Return(Zero), io |-> None, tm |-> tm]
    ELSE IF io = None \/ tm = None
         THEN [ret |-> Return(Zero), io |-> io, tm |-> tm]
    ELSE LET bytes_sent == sent - io[1]
             bytes_recv == recv - io[2]
             total_bytes == bytes_sent + bytes_recv
             time_elapsed == now - tm[1]
         IN  [ret |-> Return(IF time_elapsed > 0
                             THEN Max0(Kbps(total_bytes, time_elapsed))
                             ELSE Zero),
              io |-> <<sent, recv>>,
              tm |-> <<now>>]

\* get_network_usage, lines 69-104: the value returned and the baseline after it
get_network_usage(io, tm, read, sent, recv, now) ==
    IF read = "raise" THEN [ret |-> Return(Zero), io |-> io, tm |-> tm]
    ELSE IF read = "none" \/ io = None \/ tm = None
         THEN [ret |-> Return(Zero), io |-> io, tm |-> tm]
    ELSE LET bytes_sent == sent - io[1]
             bytes_recv == recv - io[2]
             total_bytes == bytes_sent + bytes_recv
             time_elapsed == now - tm[1]
         IN  [ret |-> Return(IF time_elapsed > 0
                             THEN Max0(Kbps(total_bytes, time_elapsed))
                             ELSE Zero),
              io |-> <<sent, recv>>,
              tm |-> <<now>>]

\* ev when no call is in progress
NoEvent ==
    [op |-> "none", cpu |-> Failed, ram |-> Failed, net |-> "none",
     raised |-> FALSE, first |-> FALSE,
     pre_io |-> None, pre_tm |-> None, pre_cache |-> 0, pre_read |-> None,
     pre_positive |-> 0]

NoHistory == [last_read |-> None, last_positive |-> 0, sampled |-> FALSE]

NoSample == SystemStats(0, 0, Zero, 0)

\* the state after SystemMonitor(): lines 24-31
SamplerConstructed ==
    /\ clock = Epoch
    /\ os_sent \in 0..1
    /\ os_recv = 0
    /\ cpu_percent_cache = 0
    /\ \E read \in NetReads :
          LET b == InitNetworkBaseline(read, os_sent, os_recv, clock)
          IN  /\ last_network_io = b.io
              /\ last_network_time = b.tm
              /\ ev = [NoEvent EXCEPT !.op = "init", !.net = read]
              /\ hist = [NoHistory EXCEPT
                            !.last_read = IF read = "ok"
                                          THEN <<os_sent, os_recv, clock>> ELSE None]
    /\ sample = NoSample

InitSampler ==
    /\ ClsIdle
    /\ AnimIdle
    /\ SamplerConstructed

\* the caller takes the result of the call; nothing else runs during a call
Idle == ev.op \in {"none", "init"}

Returned ==
    /\ ev.op = "stats"
    /\ ev' = NoEvent
    /\ sample' = NoSample
    /\ UNCHANGED <<clsVars, animVars, last_network_io, last_network_time, cpu_percent_cache,
                   clock, os_sent, os_recv, hist>>

\* time passes
Elapse ==
    /\ Idle
    /\ clock < Epoch + MaxClock
    /\ clock' = clock + 1
    /\ ev' = NoEvent
    /\ UNCHANGED <<clsVars, animVars, last_network_io, last_network_time, cpu_percent_cache,
                   os_sent, os_recv, sample, hist>>

\* the wall clock is set back (time.time() is not monotonic)
ClockSetBack ==
    /\ Idle
    /\ clock >= Epoch
    /\ clock' = clock - 1
    /\ ev' = NoEvent
    /\ UNCHANGED <<clsVars, animVars, last_network_io, last_network_time, cpu_percent_cache,
                   os_sent, os_recv, sample, hist>>

\* the interfaces send and receive; a counter drops when an interface goes away
Traffic(ds, dr) ==
    /\ Idle
    /\ os_sent + ds \in 0..MaxSent
    /\ os_recv + dr \in 0..MaxRecv
    /\ <<ds, dr>> # <<0, 0>>
    /\ os_sent' = os_sent + ds
    /\ os_recv' = os_recv + dr
    /\ ev' = NoEvent
    /\ UNCHANGED <<clsVars, animVars, last_network_io, last_network_time, cpu_percent_cache,
                   clock, sample, hist>>

\* get_system_stats, lines 106-113: the three getters in order, then the
\* SystemStats; an exception leaving a getter leaves the call at that point
GetSystemStats(cpu_read, ram_read, net_read) ==
    LET c == get_cpu_usage(cpu_percent_cache, cpu_read)
        r == get_ram_usage(ram_read)
        n == get_network_usage(last_network_io, last_network_time, net_read,
                               os_sent, os_recv, clock)
        before_net == c.ret.raised \/ r.raised
        raised == before_net \/ n.ret.raised
    IN  /\ Idle
        /\ cpu_percent_cache' = c.cache
        /\ last_network_io' = IF before_net THEN last_network_io ELSE n.io
        /\ last_network_time' = IF before_net THEN last_network_time ELSE n.tm
        /\ sample' = IF raised THEN NoSample
                     ELSE SystemStats(c.ret.val, r.val, n.ret.val, clock)
        /\ ev' = [op |-> "stats", cpu |-> cpu_read, ram |-> ram_read, net |-> net_read,
                  raised |-> raised, first |-> ~hist.sampled,
                  pre_io |-> last_network_io, pre_tm |-> last_network_time,
                  pre_cache |-> cpu_percent_cache, pre_read |-> hist.last_read,
                  pre_positive |-> hist.last_positive]
        /\ hist' = [last_read |-> IF net_read = "ok" THEN <<os_sent, os_recv, clock>>
                                  ELSE hist.last_read,
                    last_positive |-> IF ~cpu_read.exc /\ cpu_read.val > 0
                                      THEN cpu_read.val ELSE hist.last_positive,
                    sampled |-> TRUE]
        /\ UNCHANGED <<clsVars, animVars, clock, os_sent, os_recv>>

NextSampler ==
    \/ Elapse
    \/ ClockSetBack
    \/ \E ds \in -1..1, dr \in -1..1 : Traffic(ds, dr)
    \/ \E cpu_read \in CpuReads, ram_read \in RamReads, net_read \in NetReads :
          GetSystemStats(cpu_read, ram_read, net_read)
    \/ Returned

SpecSampler == InitSampler /\ [][NextSampler]_vars

-----------------------------------------------------------------------------
(* Arguments the classifier is called with *)

\* sample values around the built-in cutoffs and around the configured ones
CpuVals == {5, 10, 20, 40, 60, 70, 85, 90}
RamVals == {5, 30, 31, 75, 90}
NetVals == {Rat(10, 1), Rat(101, 2), Rat(600, 1), Rat(800, 1), Rat(2000, 1)}

Samples ==
    {SystemStats(c, r, n, 0) : c \in CpuVals, r \in RamVals, n \in NetVals}

\* the fields determine_emotion_state reads in each sub-dict
GroupFields ==
    [calm |-> {"cpu_max", "ram_max", "network_max_kbps"},
     busy |-> {"single_resource_threshold"},
     stressed |-> {"cpu_high", "ram_high", "network_high_kbps"},
     overloaded |-> {"cpu_critical", "ram_critical", "network_critical_kbps",
                     "any_critical_threshold"}]

Groups == DOMAIN GroupFields

\* a configured value of each field, chosen to contradict the built-in order
\* (calm bounds above the critical cutoffs, high cutoffs below the calm bounds)
Configured ==
    [cpu_max |-> 90, ram_max |-> 90, network_max_kbps |-> 2000,
     single_resource_threshold |-> 10,
     cpu_high |-> 10, ram_high |-> 30, network_high_kbps |-> 10,
     cpu_critical |-> 40, ram_critical |-> 31, network_critical_kbps |-> 600,
     any_critical_threshold |-> 100]

\* every sub-dict of a group: any subset of its fields present
GroupDicts(g) == {[k \in S |-> Configured[k]] : S \in SUBSET GroupFields[g]}

\* every emotion_thresholds dict: any subset of the groups present, each with
\* any subset of its fields
EmotionConfigs ==
    {[g \in G |-> full[g]] :
        G \in SUBSET Groups,
        full \in {[calm |-> a, busy |-> b, stressed |-> c, overloaded |-> d] :
                     a \in GroupDicts("calm"), b \in GroupDicts("busy"),
                     c \in GroupDicts("stressed"), d \in GroupDicts("overloaded")}}

\* legacy thresholds: any subset of the four keys, values in either order
LegacyKeys == {"idle", "walk", "idle_kbps", "walk_kbps"}
LegacyVals == {30, 80, 600}
LegacySamples ==
    {SystemStats(c, r, n, 0) :
        c \in {10, 30, 50, 80},
        r \in {30, 40, 85},
        n \in {Rat(30, 1), Rat(159, 2), Rat(80, 1), Rat(100, 1), Rat(1000, 1)}}
LegacyConfigs == UNION {[S -> LegacyVals] : S \in SUBSET LegacyKeys}
LegacyModes == {"cpu", "ram", "network", "unknown"}

-----------------------------------------------------------------------------
(* The sampler when no sampler runs *)

MonIdle ==
    /\ last_network_io = None
    /\ last_network_time = None
    /\ cpu_percent_cache = 0
    /\ clock = Epoch
    /\ os_sent = 0
    /\ os_recv = 0
    /\ sample = NoSample
    /\ ev = NoEvent
    /\ hist = NoHistory

-----------------------------------------------------------------------------
(* Composite mode: one call of determine_emotion_state on chosen arguments *)

InitEmotion ==
    /\ pc = "input"
    /\ mode = "emotion"
    /\ stats \in Samples
    /\ thresholds \in EmotionConfigs
    /\ label = "none"
    /\ analysis = NoAnalysis
    /\ calls = NoCalls
    /\ MonIdle
    /\ AnimIdle

ClassifyEmotion ==
    /\ pc = "input"
    /\ label' = determine_emotion_state(stats, thresholds)
    /\ pc' = "done"
    /\ UNCHANGED <<mode, stats, thresholds, analysis, calls, monVars, animVars>>

NextEmotion == ClassifyEmotion

SpecEmotion == InitEmotion /\ [][NextEmotion]_vars

(* Legacy modes: one call of determine_animation_state on chosen arguments *)

InitLegacy ==
    /\ pc = "input"
    /\ mode \in LegacyModes
    /\ stats \in LegacySamples
    /\ thresholds \in LegacyConfigs
    /\ label = "none"
    /\ analysis = NoAnalysis
    /\ calls = NoCalls
    /\ MonIdle
    /\ AnimIdle

ClassifyLegacy ==
    /\ pc = "input"
    /\ label' = determine_animation_state(stats, mode, thresholds)
    /\ pc' = "done"
    /\ UNCHANGED <<mode, stats, thresholds, analysis, calls, monVars, animVars>>

NextLegacy == ClassifyLegacy

SpecLegacy == InitLegacy /\ [][NextLegacy]_vars

(* Either kind of call, made through determine_animation_state *)

InitFallback ==
    /\ pc = "input"
    /\ \/ /\ mode = "emotion"
          /\ stats \in Samples
          /\ thresholds \in EmotionConfigs
       \/ /\ mode \in LegacyModes
          /\ stats \in LegacySamples
          /\ thresholds \in LegacyConfigs
    /\ label = "none"
    /\ analysis = NoAnalysis
    /\ calls = NoCalls
    /\ MonIdle
    /\ AnimIdle

SpecFallback == InitFallback /\ [][NextLegacy]_vars

(* The default configuration: one call of determine_emotion_state with it *)

\* ConfigManager._get_default_config, config_manager.py lines 34-57
get_default_config ==
    [skins |-> EmptyDict,
     thresholds |->
        [cpu |-> [idle |-> 30, walk |-> 80],
         ram |-> [idle |-> 40, walk |-> 85],
         network |-> [idle_kbps |-> 100, walk_kbps |-> 1000]],
     emotion_thresholds |->
        [calm |-> [cpu_max |-> 20, ram_max |-> 30, network_max_kbps |-> 50],
         active |-> [cpu_range |-> <<20, 60>>, ram_range |-> <<30, 70>>,
                     network_range_kbps |-> <<50, 500>>],
         busy |-> [single_resource_threshold |-> 60],
         stressed |-> [multiple_resources_threshold |-> 70, cpu_high |-> 70,
                       ram_high |-> 75, network_high_kbps |-> 800],
         overloaded |-> [cpu_critical |-> 90, ram_critical |-> 90,
                         network_critical_kbps |-> 2000,
                         any_critical_threshold |-> 85]],
     settings |->
        [poll_interval_ms |-> 500, animation_mode |-> "emotion",
         current_skin |-> "default", tray_icon_size |-> 32,
         emotion_system_enabled |-> TRUE]]

\* ConfigManager.get_emotion_thresholds, lines 133-135, on the default configuration
DefaultEmotionThresholds == Get(get_default_config, "emotion_thresholds", EmptyDict)

\* samples of the scenarios and around them
ScenarioSamples ==
    {SystemStats(c, r, n, 0) :
        c \in {0, 15, 40, 75, 80, 95},
        r \in {0, 10, 20, 60, 80},
        n \in {Rat(0, 1), Rat(5, 1), Rat(10, 1), Rat(900, 1)}}

InitDefault ==
    /\ pc = "input"
    /\ mode = "emotion"
    /\ stats \in ScenarioSamples
    /\ thresholds = DefaultEmotionThresholds
    /\ label = "none"
    /\ analysis = NoAnalysis
    /\ calls = NoCalls
    /\ MonIdle
    /\ AnimIdle

SpecDefault == InitDefault /\ [][NextEmotion]_vars

(* Classifier calls between the operations of a running sampler *)

MaxCalls == 3

PureSamples == {SystemStats(1, 0, Rat(0, 1), 0), SystemStats(75, 80, Rat(5, 1), 0)}

\* a mode and the thresholds passed with it
PureArgs ==
    {<<"emotion", EmptyDict>>, <<"emotion", DefaultEmotionThresholds>>,
     <<"cpu", EmptyDict>>, <<"cpu", [idle |-> 1, walk |-> 2]>>}

InitPure ==
    /\ pc = "input"
    /\ \E a \in PureArgs : mode = a[1] /\ thresholds = a[2]
    /\ stats \in PureSamples
    /\ label = "none"
    /\ analysis = NoAnalysis
    /\ calls = NoCalls
    /\ SamplerConstructed
    /\ AnimIdle

\* what a classifier call adds to the history
Counted(first_label, first_analysis) ==
    [n |-> calls.n + 1,
     label |-> IF calls.label = "none" THEN first_label ELSE calls.label,
     analysis |-> IF calls.analysis = NoAnalysis THEN first_analysis ELSE calls.analysis,
     first_cache |-> IF calls.n = 0 THEN cpu_percent_cache ELSE calls.first_cache,
     last_cache |-> cpu_percent_cache]

\* determine_animation_state called on the arguments
CallClassify ==
    /\ Idle
    /\ calls.n < MaxCalls
    /\ label' = determine_animation_state(stats, mode, thresholds)
    /\ pc' = "done"
    /\ calls' = Counted(label', NoAnalysis)
    /\ UNCHANGED <<mode, stats, thresholds, analysis, monVars, animVars>>

\* get_emotion_analysis called on the arguments
CallAnalyse ==
    /\ Idle
    /\ calls.n < MaxCalls
    /\ analysis' = get_emotion_analysis(stats, thresholds)
    /\ calls' = Counted("none", analysis')
    /\ UNCHANGED <<pc, mode, stats, thresholds, label, monVars, animVars>>

NextPure ==
    \/ Elapse
    \/ Traffic(1, 0)
    \/ \E cpu_read \in {Read(1), Read(2)} : GetSystemStats(cpu_read, Read(1), "ok")
    \/ Returned
    \/ CallClassify
    \/ CallAnalyse

SpecPure == InitPure /\ [][NextPure]_vars

(* The analysis: determine_emotion_state, then get_emotion_analysis, on the *)
(* same arguments                                                           *)

\* samples around the fixed cutoffs of the stressors, above 100 percent and
\* far above 2000 KB/s
AnalysisSamples ==
    {SystemStats(c, r, n, 0) :
        c \in {0, 10, 70, 71, 120},
        r \in {0, 75, 76},
        n \in {Rat(0, 1), Rat(800, 1), Rat(1601, 2), Rat(2000, 1), Rat(5000, 1)}}

\* no configuration, the default one, and the contradictory one in full
AnalysisConfigs ==
    {EmptyDict, DefaultEmotionThresholds,
     [g \in Groups |-> [k \in GroupFields[g] |-> Configured[k]]]}

InitAnalysis ==
    /\ pc = "input"
    /\ mode = "emotion"
    /\ stats \in AnalysisSamples
    /\ thresholds \in AnalysisConfigs
    /\ label = "none"
    /\ analysis = NoAnalysis
    /\ calls = NoCalls
    /\ MonIdle
    /\ AnimIdle

Analyse ==
    /\ pc = "done"
    /\ analysis' = get_emotion_analysis(stats, thresholds)
    /\ pc' = "analysed"
    /\ UNCHANGED <<mode, stats, thresholds, label, calls, monVars, animVars>>

NextAnalysis ==
    \/ ClassifyEmotion
    \/ Analyse

SpecAnalysis == InitAnalysis /\ [][NextAnalysis]_vars

-----------------------------------------------------------------------------
(* Claims about the classifier *)

EmotionLabels == {"calm", "active", "busy", "stressed", "overloaded"}
LegacyLabels == {"idle", "walk", "run"}
LegacyMetricModes == {"cpu", "ram", "network"}

\* the overloaded condition as the claim words it
C1_MeetsOverloaded ==
    LET oc == Get(thresholds, "overloaded", EmptyDict)
    IN  \/ stats.cpu_percent >= Get(oc, "cpu_critical", 90)
        \/ stats.ram_percent >= Get(oc, "ram_critical", 90)
        \/ RGeq(stats.network_kbps, Get(oc, "network_critical_kbps", 2000))
        \/ stats.cpu_percent >= Get(oc, "any_critical_threshold", 85)
        \/ stats.ram_percent >= Get(oc, "any_critical_threshold", 85)

\* the rules whose condition the arguments meet, in cascade order
C1_Matches ==
    << C1_MeetsOverloaded, StressedCond(stats, thresholds),
       BusyCond(stats, thresholds), CalmCond(stats, thresholds), TRUE >>

C1_Order == << "overloaded", "stressed", "busy", "calm", "active" >>

\* C1: composite mode is a strict priority cascade, first match wins, in the
\* order overloaded, stressed, busy, calm, active: a sample meeting the
\* overloaded condition is labelled "overloaded" whatever else it meets, and
\* the label is that of the earliest rule whose condition holds.
C1_PriorityCascade ==
    pc = "done" =>
        /\ C1_MeetsOverloaded => label = "overloaded"
        /\ \E i \in 1..5 :
              /\ C1_Matches[i]
              /\ \A j \in 1..(i - 1) : ~C1_Matches[j]
              /\ label = C1_Order[i]

\* a contradictory configuration: the sample meets the overloaded, stressed,
\* busy and calm conditions at once
C1_Witness ==
    /\ pc = "done"
    /\ C1_MeetsOverloaded
    /\ StressedCond(stats, thresholds)
    /\ BusyCond(stats, thresholds)
    /\ CalmCond(stats, thresholds)
    /\ label = "overloaded"

\* C2: the composite classifier is total: for every sample and every
\* configuration, with any subset of fields absent, it returns exactly one of
\* the five labels.
C2_Total == pc = "done" => label \in EmotionLabels

\* a call with some groups absent and a group with some fields absent, that
\* reaches the end of the cascade
C2_Witness ==
    /\ pc = "done"
    /\ DOMAIN thresholds = {"overloaded", "calm"}
    /\ DOMAIN thresholds["overloaded"] = {"cpu_critical"}
    /\ DOMAIN thresholds["calm"] = {}
    /\ label = "active"

\* the sample field and the two thresholds a legacy mode reads, as the claim
\* names them
C3_Usage ==
    CASE mode = "cpu" -> Rat(stats.cpu_percent, 1)
      [] mode = "ram" -> Rat(stats.ram_percent, 1)
      [] mode = "network" -> stats.network_kbps

C3_IdleKey == IF mode = "network" THEN "idle_kbps" ELSE "idle"
C3_WalkKey == IF mode = "network" THEN "walk_kbps" ELSE "walk"

Rank == [idle |-> 0, walk |-> 1, run |-> 2]

\* x <= y for two fractions
RLeqR(x, y) == x.n * y.d <= y.n * x.d

\* C4: a legacy-mode label is one of idle, walk, run and is monotonic in usage:
\* with the thresholds fixed (also when idle > walk), no lower usage gets a
\* higher label than the one returned.
C4_Monotonic ==
    (pc = "done" /\ mode \in LegacyMetricModes) =>
        /\ label \in LegacyLabels
        /\ \A s \in LegacySamples :
              RLeqR(LegacyUsage(s, mode), C3_Usage) =>
                  Rank[determine_animation_state(s, mode, thresholds)] <= Rank[label]

\* thresholds with idle > walk, and a usage between the two
C4_Witness ==
    /\ pc = "done"
    /\ mode = "cpu"
    /\ thresholds = [idle |-> 80, walk |-> 30]
    /\ stats.cpu_percent = 50
    /\ label = "run"

\* the sample {cpu, ram, network} got the label
Labelled(cpu, ram, network, l) ==
    (/\ stats.cpu_percent = cpu
     /\ stats.ram_percent = ram
     /\ REq(stats.network_kbps, Rat(network, 1))) => label = l

\* C13: with the default composite configuration, sample {cpu:95, ram:10,
\* network:5} is labelled overloaded, {cpu:75, ram:80, network:5} stressed
\* and {cpu:15, ram:20, network:10} calm.
C13_DefaultScenarios ==
    (pc = "done" /\ thresholds = DefaultEmotionThresholds) =>
        /\ Labelled(95, 10, 5, "overloaded")
        /\ Labelled(75, 80, 5, "stressed")
        /\ Labelled(15, 20, 10, "calm")

\* the second scenario has been classified
C13_Witness ==
    /\ pc = "done"
    /\ thresholds = DefaultEmotionThresholds
    /\ stats = SystemStats(75, 80, Rat(5, 1), 0)
    /\ label = "stressed"

\* the three _high cutoffs as the stressed rule reads them
C14_CpuHigh == Get(Get(thresholds, "stressed", EmptyDict), "cpu_high", 70)
C14_RamHigh == Get(Get(thresholds, "stressed", EmptyDict), "ram_high", 75)
C14_NetworkHigh == Get(Get(thresholds, "stressed", EmptyDict), "network_high_kbps", 800)

\* how many metrics are strictly above their _high cutoff
C14_Exceeding ==
    Cardinality({m \in {"cpu", "ram", "network"} :
        CASE m = "cpu" -> stats.cpu_percent > C14_CpuHigh
          [] m = "ram" -> stats.ram_percent > C14_RamHigh
          [] m = "network" -> RGt(stats.network_kbps, C14_NetworkHigh)})

\* how many metrics are at or above their _high cutoff
C14_Reaching ==
    Cardinality({m \in {"cpu", "ram", "network"} :
        CASE m = "cpu" -> stats.cpu_percent >= C14_CpuHigh
          [] m = "ram" -> stats.ram_percent >= C14_RamHigh
          [] m = "network" -> RGeq(stats.network_kbps, C14_NetworkHigh)})

\* C14 as stated: a sample that does not meet the overloaded condition is
\* labelled "stressed" if and only if at least two of the three metrics
\* exceed (are strictly above) their _high cutoffs.
C14_StressedIffTwoExceed ==
    (pc = "done" /\ ~C1_MeetsOverloaded) =>
        (label = "stressed" <=> C14_Exceeding >= 2)

\* C14 amended: a sample that does not meet the overloaded condition is
\* labelled "stressed" if and only if at least two of the three metrics are
\* at or above (>=) their _high cutoffs.
C14_StressedIffTwoReach ==
    (pc = "done" /\ ~C1_MeetsOverloaded) =>
        (label = "stressed" <=> C14_Reaching >= 2)

\* two metrics exactly at their cutoffs, none above: labelled stressed
C14_Witness ==
    /\ pc = "done"
    /\ ~C1_MeetsOverloaded
    /\ C14_Reaching = 2
    /\ C14_Exceeding = 0
    /\ label = "stressed"

\* the shared threshold as the busy rule reads it
C15_Single == Get(Get(thresholds, "busy", EmptyDict), "single_resource_threshold", 60)

\* neither the overloaded nor the stressed condition is met
C15_NotAbove == ~C1_MeetsOverloaded /\ C14_Reaching < 2

\* C15 as stated: a sample that meets neither the overloaded nor the stressed
\* condition is labelled "busy" if and only if cpu or ram exceeds (is
\* strictly above) single_resource_threshold or network exceeds that
\* threshold x 10.
C15_BusyIffOneExceeds ==
    (pc = "done" /\ C15_NotAbove) =>
        (label = "busy" <=> \/ stats.cpu_percent > C15_Single
                            \/ stats.ram_percent > C15_Single
                            \/ RGt(stats.network_kbps, C15_Single * 10))

\* C15 amended: a sample that meets neither the overloaded nor the stressed
\* condition is labelled "busy" if and only if cpu or ram is at or above (>=)
\* single_resource_threshold or network is at or above that threshold x 10.
C15_BusyIffOneReaches ==
    (pc = "done" /\ C15_NotAbove) =>
        (label = "busy" <=> \/ stats.cpu_percent >= C15_Single
                            \/ stats.ram_percent >= C15_Single
                            \/ RGeq(stats.network_kbps, C15_Single * 10))

\* busy through the network alone, exactly at threshold x 10 and far above
\* the unscaled threshold
C15_Witness ==
    /\ pc = "done"
    /\ C15_NotAbove
    /\ stats.cpu_percent < C15_Single
    /\ stats.ram_percent < C15_Single
    /\ REq(stats.network_kbps, Rat(C15_Single * 10, 1))
    /\ label = "busy"

\* none of the overloaded, stressed and busy conditions is met
C16_NoneAbove ==
    /\ C15_NotAbove
    /\ stats.cpu_percent < C15_Single
    /\ stats.ram_percent < C15_Single
    /\ ~RGeq(stats.network_kbps, C15_Single * 10)

\* cpu <= cpu_max, ram <= ram_max and network <= network_max_kbps together
C16_AllAtOrBelowMax ==
    LET cc == Get(thresholds, "calm", EmptyDict)
    IN  /\ stats.cpu_percent <= Get(cc, "cpu_max", 20)
        /\ stats.ram_percent <= Get(cc, "ram_max", 30)
        /\ RLeq(stats.network_kbps, Get(cc, "network_max_kbps", 50))

\* C16: a sample that meets none of the overloaded, stressed and busy
\* conditions is labelled "calm" exactly when cpu <= cpu_max, ram <= ram_max
\* and network <= network_max_kbps all hold, and "active" otherwise.
C16_CalmOrActive ==
    (pc = "done" /\ C16_NoneAbove) =>
        label = IF C16_AllAtOrBelowMax THEN "calm" ELSE "active"

\* one metric above its _max while the two others are at theirs: active
C16_Witness ==
    /\ pc = "done"
    /\ C16_NoneAbove
    /\ thresholds = EmptyDict
    /\ stats = SystemStats(20, 31, Rat(10, 1), 0)
    /\ label = "active"

\* all three metrics at or below their _max, two exactly at it: calm
C16_WitnessCalm ==
    /\ pc = "done"
    /\ C16_NoneAbove
    /\ thresholds = EmptyDict
    /\ stats = SystemStats(20, 30, Rat(10, 1), 0)
    /\ label = "calm"

\* the defaults as the claim lists them
C17_Listed ==
    [calm |-> [cpu_max |-> 20, ram_max |-> 30, network_max_kbps |-> 50],
     busy |-> [single_resource_threshold |-> 60],
     stressed |-> [cpu_high |-> 70, ram_high |-> 75, network_high_kbps |-> 800],
     overloaded |-> [cpu_critical |-> 90, ram_critical |-> 90,
                     network_critical_kbps |-> 2000, any_critical_threshold |-> 85],
     cpu |-> [idle |-> 30, walk |-> 80],
     ram |-> [idle |-> 40, walk |-> 85],
     network |-> [idle_kbps |-> 100, walk_kbps |-> 1000]]

\* the listed defaults are the values of the default configuration
C17_ListedIsDefaultConfig ==
    /\ \A g \in Groups : \A k \in GroupFields[g] :
          get_default_config.emotion_thresholds[g][k] = C17_Listed[g][k]
    /\ \A m \in LegacyMetricModes :
          get_default_config.thresholds[m] = C17_Listed[m]

\* the thresholds argument with every missing field set to its listed default
C17_Filled ==
    IF mode = "emotion"
    THEN [g \in Groups |->
            [k \in GroupFields[g] |->
                Get(Get(thresholds, g, EmptyDict), k, C17_Listed[g][k])]]
    ELSE [k \in DOMAIN C17_Listed[mode] |-> Get(thresholds, k, C17_Listed[mode][k])]

\* C17: classifying a sample with an empty threshold configuration, or one
\* with any subset of fields missing, gives the same label as classifying it
\* with the missing fields set to the built-in defaults, which are the values
\* of the default configuration.
C17_FallbackIsDefault ==
    /\ C17_ListedIsDefaultConfig
    /\ (pc = "done" /\ mode \in {"emotion"} \cup LegacyMetricModes) =>
          label = determine_animation_state(stats, mode, C17_Filled)

\* a stressed group holding cpu_high only: ram_high falls back to 75 and the
\* absent overloaded group to its defaults
C17_Witness ==
    /\ pc = "done"
    /\ mode = "emotion"
    /\ DOMAIN thresholds = {"stressed"}
    /\ DOMAIN thresholds["stressed"] = {"cpu_high"}
    /\ stats = SystemStats(10, 75, Rat(10, 1), 0)
    /\ label = "stressed"

\* ram mode with no thresholds at all, usage at the default idle threshold
C17_WitnessLegacy ==
    /\ pc = "done"
    /\ mode = "ram"
    /\ thresholds = EmptyDict
    /\ stats.ram_percent = 40
    /\ label = "walk"

C19_NetworkLevel ==
    IF RGt(stats.network_kbps, 2000) THEN Rat(100, 1)
    ELSE Rat(stats.network_kbps.n, stats.network_kbps.d * 20)

C19_Mean ==
    LET c == IF stats.cpu_percent > 100 THEN 100 ELSE stats.cpu_percent
        r == IF stats.ram_percent > 100 THEN 100 ELSE stats.ram_percent
    IN  Rat((c + r) * C19_NetworkLevel.d + C19_NetworkLevel.n, 3 * C19_NetworkLevel.d)

\* overall_stress lies in 0..100
C19_InRange ==
    /\ analysis.overall_stress.n >= 0
    /\ RLeq(analysis.overall_stress, 100)

\* C19 as stated: get_emotion_analysis returns the label of composite
\* classify on the same arguments, and overall_stress = mean(min(100, cpu),
\* min(100, ram), min(100, network / 20)), which lies in 0..100.
C19_StressIsMean ==
    pc = "analysed" =>
        /\ analysis.emotion = label
        /\ REq(analysis.overall_stress, C19_Mean)
        /\ C19_InRange

\* C19 amended: the label is that of composite classify, and overall_stress
\* is that mean rounded to one decimal place: a whole number of tenths, at
\* most half a tenth away from the mean, and in 0..100.
C19_StressIsRoundedMean ==
    pc = "analysed" =>
        /\ analysis.emotion = label
        /\ analysis.overall_stress.d = 10
        /\ LET k == analysis.overall_stress.n
               diff == k * C19_Mean.d - 10 * C19_Mean.n
           IN  /\ 2 * diff <= C19_Mean.d
               /\ 2 * diff >= - C19_Mean.d
        /\ C19_InRange

\* a network rate far above 2000 KB/s and a mean that is no whole number of
\* tenths: (10 + 0 + 100) / 3 is reported as 36.7
C19_Witness ==
    /\ pc = "analysed"
    /\ stats = SystemStats(10, 0, Rat(5000, 1), 0)
    /\ analysis.overall_stress = Rat(367, 10)
    /\ analysis.emotion = label

\* the metrics named by a stressor list
C20_Named(stressors) == {stressors[i][1] : i \in DOMAIN stressors}

\* C20: active_stressors depends on the sample only: it names cpu exactly
\* when cpu > 70, ram exactly when ram > 75 and network exactly when
\* network > 800, and the call on the same sample with any other
\* configuration returns the same list.
C20_StressorsIgnoreConfig ==
    pc = "analysed" =>
        /\ "High CPU" \in C20_Named(analysis.active_stressors) <=> stats.cpu_percent > 70
        /\ "High RAM" \in C20_Named(analysis.active_stressors) <=> stats.ram_percent > 75
        /\ "High Network" \in C20_Named(analysis.active_stressors)
              <=> RGt(stats.network_kbps, 800)
        /\ \A other \in AnalysisConfigs :
              get_emotion_analysis(stats, other).active_stressors
                  = analysis.active_stressors

\* a sample with stressors whose label under another configuration differs
C20_Witness ==
    /\ pc = "analysed"
    /\ stats = SystemStats(71, 75, Rat(1601, 2), 0)
    /\ C20_Named(analysis.active_stressors) = {"High CPU", "High Network"}
    /\ \E other \in AnalysisConfigs :
          get_emotion_analysis(stats, other).emotion # analysis.emotion

-----------------------------------------------------------------------------
(* Claims about the sampler *)

\* (delta_sent + delta_recv) / 1024 / dt against an earlier read
\* prev = <<sent, recv, time>>, clamped at 0; dt = clock - prev[3] > 0 clock units
ClaimedRate(prev) ==
    LET delta == (os_sent - prev[1]) + (os_recv - prev[2])
        dt == clock - prev[3]
    IN  IF delta < 0 THEN Zero ELSE Rat(delta * 1000 * TicksPerMs, 1024 * dt)

FirstSample == ev.op = "stats" /\ ev.first /\ ~ev.raised

\* C5 as stated: the network rate of the very first sample after the sampler
\* is initialized is 0.
C5_FirstSampleIsZero == FirstSample => REq(sample.network_kbps, Zero)

\* C5 amended: the first sample reports 0 when the constructor obtained no
\* baseline (or this read fails, or no time has passed); when the constructor
\* read the counters, the first sample reports the rate against that read.
C5_FirstSampleAgainstInit ==
    FirstSample =>
        IF ev.pre_read = None \/ ev.net # "ok" \/ clock - ev.pre_read[3] <= 0
        THEN REq(sample.network_kbps, Zero)
        ELSE REq(sample.network_kbps, ClaimedRate(ev.pre_read))

\* a first sample that reports a rate above 0
C5_Witness == FirstSample /\ sample.network_kbps.n > 0

\* C6: for two consecutive successful network reads with dt > 0 the reported
\* rate is (delta_sent + delta_recv) / 1024 / dt against the counters and the
\* timestamp of the preceding read, and never negative.
C6_RateOfConsecutiveReads ==
    (/\ ev.op = "stats" /\ ~ev.raised
     /\ ev.net = "ok"
     /\ ev.pre_read # None
     /\ clock - ev.pre_read[3] > 0)
    => /\ REq(sample.network_kbps, ClaimedRate(ev.pre_read))
       /\ sample.network_kbps.n >= 0

\* the same where the sampler held a baseline before the read
C6_RateWithBaseline ==
    (/\ ev.op = "stats" /\ ~ev.raised
     /\ ev.net = "ok"
     /\ ev.pre_io # None
     /\ clock - ev.pre_read[3] > 0)
    => /\ REq(sample.network_kbps, ClaimedRate(ev.pre_read))
       /\ sample.network_kbps.n >= 0

\* C7: every successful read of the counters replaces the baseline with the
\* counters and the timestamp just read, also when dt <= 0 and when no
\* baseline existed before the read.
C7_BaselineAlwaysReplaced ==
    (ev.op = "stats" /\ ~ev.raised /\ ev.net = "ok") =>
        /\ last_network_io = <<os_sent, os_recv>>
        /\ last_network_time = <<clock>>

\* the same where the sampler held a baseline before the read
C7_BaselineReplacedIfHeld ==
    (ev.op = "stats" /\ ~ev.raised /\ ev.net = "ok" /\ ev.pre_io # None) =>
        /\ last_network_io = <<os_sent, os_recv>>
        /\ last_network_time = <<clock>>

\* what a network read that succeeds returns, from the baseline held before it
C8_NetworkValue ==
    IF ev.net = "none" \/ ev.pre_io = None \/ ev.pre_tm = None
       \/ clock - ev.pre_tm[1] <= 0
    THEN Zero
    ELSE ClaimedRate(<<ev.pre_io[1], ev.pre_io[2], ev.pre_tm[1]>>)

\* C8: get_system_stats never raises, whatever subset of the three reads
\* fails: a failed processor read yields the last good reading, a failed
\* memory read 0, a failed network read 0, and a metric whose read succeeded
\* has the value it has when nothing fails.
C8_SampleNeverRaises ==
    ev.op = "stats" =>
        /\ ~ev.raised
        /\ sample.cpu_percent =
              IF ev.cpu.exc \/ ev.cpu.val = 0 THEN ev.pre_positive ELSE ev.cpu.val
        /\ sample.ram_percent = IF ev.ram.exc THEN 0 ELSE ev.ram.val
        /\ REq(sample.network_kbps, IF ev.net = "raise" THEN Zero ELSE C8_NetworkValue)
        /\ sample.timestamp = clock

\* all three reads fail after a good processor reading
C8_Witness ==
    /\ ev.op = "stats"
    /\ ev.cpu.exc /\ ev.ram.exc /\ ev.net = "raise"
    /\ sample.cpu_percent > 0
    /\ sample.ram_percent = 0
    /\ sample.network_kbps = Zero

\* only the memory read fails: the other two metrics are as read
C8_WitnessPartial ==
    /\ ev.op = "stats"
    /\ ~ev.cpu.exc /\ ev.ram.exc /\ ev.net = "ok"
    /\ sample.cpu_percent = ev.cpu.val /\ ev.cpu.val > 0
    /\ sample.network_kbps.n > 0

\* C9: the processor load returned is the most recent strictly positive
\* reading obtained so far (a reading of 0 or a failed read returns it and
\* does not overwrite it), and is 0 only if there has been none.
C9_LastPositiveReading ==
    /\ cpu_percent_cache = hist.last_positive
    /\ (ev.op = "stats" /\ ~ev.raised) =>
          /\ sample.cpu_percent = hist.last_positive
          /\ (ev.cpu.exc \/ ev.cpu.val = 0) => cpu_percent_cache = ev.pre_cache

\* a reading of 0 after a positive reading returns the positive one
C9_Witness ==
    /\ ev.op = "stats"
    /\ ~ev.cpu.exc /\ ev.cpu.val = 0
    /\ ev.pre_positive > 0
    /\ sample.cpu_percent = ev.pre_positive

-----------------------------------------------------------------------------
(* Animation scheduler: Animation and AnimationEngine                      *)

\* What the asset-loading and configuration collaborators hold: the skin
\* directories under assets/skins, the "skins" section of the configuration,
\* and the number of PNG frames in each animation directory.
SkinDirs == {"default", "classic", "empty", "nocfg"}

SkinsConfig ==
    [default |-> [animations |->
                    [calm |-> [fps |-> 600],
                     active |-> [fps |-> 1000, loop |-> FALSE],
                     run |-> [fps |-> 24]]],
     classic |-> [animations |->
                    [idle |-> [fps |-> 2000, loop |-> TRUE],
                     walk |-> [loop |-> TRUE]]],
     empty |-> [animations |-> [idle |-> [fps |-> 24]]],
     unplugged |-> [animations |-> [idle |-> [fps |-> 24]]]]

FrameFiles ==
    [default |-> [calm |-> 3, active |-> 2],
     classic |-> [idle |-> 2]]

SkinNames == SkinDirs \cup DOMAIN SkinsConfig

\* the "current_skin" setting the configuration file may hold at start
ConfiguredSkins == {"default", "nocfg"}
AnimationNames == {"calm", "active", "idle", "run"}

\* a frame duration rounded up to the next whole millisecond
M_FrameDurationCeil(fps) == IF fps > 0 THEN (1000 + fps - 1) \div fps ELSE 42

\* frame_duration_ms, line 33
FrameDuration(fps) == IF fps > 0 THEN 1000 \div fps ELSE 42

\* Animation.__init__, lines 19-35
Animation(name, frames, fps, loop) ==
    [name |-> name, frames |-> frames, fps |-> fps, loop |-> loop,
     frame_duration_ms |-> FrameDuration(fps),
     current_frame |-> 0,
     last_frame_time |-> 0]

\* Animation.get_current_frame, lines 37-41
AnimationCurrentFrame(a) ==
    IF a.frames = <<>> THEN NullPixmap ELSE a.frames[a.current_frame + 1]

\* an advance that catches up: one frame per frame duration elapsed
M_AdvanceCatchUp(a, current_time) ==
    LET elapsed == current_time - a.last_frame_time
        steps == IF a.frame_duration_ms > 0 THEN elapsed \div a.frame_duration_ms ELSE 1
    IN  IF elapsed >= a.frame_duration_ms /\ a.frames # <<>>
        THEN [ret |-> TRUE,
              a |-> [a EXCEPT !.current_frame = (a.current_frame + steps) % Len(a.frames),
                              !.last_frame_time = current_time]]
        ELSE [ret |-> FALSE, a |-> a]

\* an advance made on every tick, whatever time has passed
M_AdvanceEveryTick(a, current_time) ==
    IF a.frames # <<>>
    THEN [ret |-> TRUE,
          a |-> [a EXCEPT !.current_frame = (a.current_frame + 1) % Len(a.frames),
                          !.last_frame_time = current_time]]
    ELSE [ret |-> FALSE, a |-> a]

\* an advance that stays on the last frame of a sequence with loop = False
M_AdvanceHonoursLoop(a, current_time) ==
    IF /\ current_time - a.last_frame_time >= a.frame_duration_ms
       /\ a.frames # <<>>
    THEN IF ~a.loop /\ a.current_frame = Len(a.frames) - 1
         THEN [ret |-> FALSE, a |-> a]
         ELSE [ret |-> TRUE,
               a |-> [a EXCEPT !.current_frame = (a.current_frame + 1) % Len(a.frames),
                               !.last_frame_time = current_time]]
    ELSE [ret |-> FALSE, a |-> a]

\* Animation.advance_frame, lines 43-58: the result and the object after it
advance_frame(a, current_time) ==
    IF /\ current_time - a.last_frame_time >= a.frame_duration_ms
       /\ a.frames # <<>>
    THEN [ret |-> TRUE,
          a |-> [a EXCEPT !.current_frame = (a.current_frame + 1) % Len(a.frames),
                          !.last_frame_time = current_time]]
    ELSE [ret |-> FALSE, a |-> a]

\* a reset that restarts the timing and keeps the frame index
M_ResetKeepsIndex(a, current_time) ==
    [a EXCEPT !.last_frame_time = current_time]

\* Animation.reset, lines 60-63
reset(a, current_time) ==
    [a EXCEPT !.current_frame = 0, !.last_frame_time = current_time]

\* _load_animation_frames, lines 94-135: the frames of one animation directory
LoadAnimationFrames(skin, anim_name) ==
    LET n == Get(Get(FrameFiles, skin, EmptyDict), anim_name, 0)
    IN  [i \in 1..n |-> <<skin, anim_name, i>>]

\* An Animation object is named by its skin, its name and a generation; the
\* objects no field refers to any more are dropped.
Reachable(E) ==
    {id \in DOMAIN E.objects :
        \/ E.current_animation = <<id>>
        \/ \E sk \in DOMAIN E.animations :
              \E nm \in DOMAIN E.animations[sk] : E.animations[sk][nm] = id}
Collect(E) ==
    [E EXCEPT !.objects = [id \in Reachable(E) |-> E.objects[id]]]
FreshId(E, skin, anim_name) ==
    IF <<skin, anim_name, 0>> \in DOMAIN E.objects
    THEN <<skin, anim_name, 1>> ELSE <<skin, anim_name, 0>>

\* ConfigManager.get_skin_info, config_manager.py lines 80-82
get_skin_info(skin) == Get(SkinsConfig, skin, EmptyDict)

\* _load_skin without the test of line 162: a sequence with no frames is kept
M_LoadSkinKeepsFrameless(E, skin) ==
    LET skin_info == get_skin_info(skin)
        configured == Get(skin_info, "animations", EmptyDict)
        loaded == DOMAIN configured
        ids == [nm \in loaded |-> FreshId(E, skin, nm)]
        made == [id \in {ids[nm] : nm \in loaded} |->
                    Animation(id[2], LoadAnimationFrames(skin, id[2]),
                              Get(configured[id[2]], "fps", 24),
                              Get(configured[id[2]], "loop", TRUE))]
    IN  IF skin \notin SkinDirs THEN [ret |-> FALSE, E |-> E]
        ELSE IF skin_info = EmptyDict THEN [ret |-> FALSE, E |-> E]
        ELSE IF loaded = {} THEN [ret |-> FALSE, E |-> E]
        ELSE [ret |-> TRUE,
              E |-> [E EXCEPT
                       !.animations =
                           [sk \in DOMAIN E.animations \cup {skin} |->
                               IF sk = skin THEN ids ELSE E.animations[sk]],
                       !.objects =
                           [id \in DOMAIN E.objects \cup DOMAIN made |->
                               IF id \in DOMAIN made THEN made[id] ELSE E.objects[id]],
                       !.current_skin = skin]]

\* _load_skin without the test of line 174: a skin with no sequence is kept
M_LoadSkinKeepsEmpty(E, skin) ==
    LET skin_info == get_skin_info(skin)
        configured == Get(skin_info, "animations", EmptyDict)
        loaded == {nm \in DOMAIN configured : LoadAnimationFrames(skin, nm) # <<>>}
        ids == [nm \in loaded |-> FreshId(E, skin, nm)]
        made == [id \in {ids[nm] : nm \in loaded} |->
                    Animation(id[2], LoadAnimationFrames(skin, id[2]),
                              Get(configured[id[2]], "fps", 24),
                              Get(configured[id[2]], "loop", TRUE))]
    IN  IF skin \notin SkinDirs THEN [ret |-> FALSE, E |-> E]
        ELSE IF skin_info = EmptyDict THEN [ret |-> FALSE, E |-> E]
        ELSE [ret |-> TRUE,
              E |-> [E EXCEPT
                       !.animations =
                           [sk \in DOMAIN E.animations \cup {skin} |->
                               IF sk = skin THEN ids ELSE E.animations[sk]],
                       !.objects =
                           [id \in DOMAIN E.objects \cup DOMAIN made |->
                               IF id \in DOMAIN made THEN made[id] ELSE E.objects[id]],
                       !.current_skin = skin]]

\* AnimationEngine._load_skin, lines 137-180: the result and the engine after it
load_skin(E, skin) ==
    LET skin_info == get_skin_info(skin)
        configured == Get(skin_info, "animations", EmptyDict)
        loaded == {nm \in DOMAIN configured : LoadAnimationFrames(skin, nm) # <<>>}
        ids == [nm \in loaded |-> FreshId(E, skin, nm)]
        made == [id \in {ids[nm] : nm \in loaded} |->
                    Animation(id[2], LoadAnimationFrames(skin, id[2]),
                              Get(configured[id[2]], "fps", 24),
                              Get(configured[id[2]], "loop", TRUE))]
    IN  IF skin \notin SkinDirs THEN [ret |-> FALSE, E |-> E]
        ELSE IF skin_info = EmptyDict THEN [ret |-> FALSE, E |-> E]
        ELSE IF loaded = {} THEN [ret |-> FALSE, E |-> E]
        ELSE [ret |-> TRUE,
              E |-> [E EXCEPT
                       !.animations =
                           [sk \in DOMAIN E.animations \cup {skin} |->
                               IF sk = skin THEN ids ELSE E.animations[sk]],
                       !.objects =
                           [id \in DOMAIN E.objects \cup DOMAIN made |->
                               IF id \in DOMAIN made THEN made[id] ELSE E.objects[id]],
                       !.current_skin = skin]]

\* set_animation recording the requested name before it looks the name up
M_SetAnimationRecordsName(E, animation_name, current_time) ==
    IF E.current_skin \notin DOMAIN E.animations THEN [ret |-> FALSE, E |-> E]
    ELSE LET skin_animations == E.animations[E.current_skin]
             E1 == [E EXCEPT !.current_animation_name = animation_name]
         IN  IF animation_name \in DOMAIN skin_animations
             THEN LET id == skin_animations[animation_name]
                      new_animation == reset(E.objects[id], current_time)
                  IN  [ret |-> TRUE,
                       E |-> [E1 EXCEPT
                                !.objects[id] = new_animation,
                                !.current_animation = <<id>>,
                                !.emitted = Append(@, AnimationCurrentFrame(new_animation))]]
             ELSE [ret |-> FALSE, E |-> E1]

\* AnimationEngine.set_animation, lines 203-231
set_animation(E, animation_name, current_time) ==
    IF E.current_skin \notin DOMAIN E.animations THEN [ret |-> FALSE, E |-> E]
    ELSE LET skin_animations == E.animations[E.current_skin]
         IN  IF animation_name \in DOMAIN skin_animations
             THEN LET id == skin_animations[animation_name]
                      new_animation == reset(E.objects[id], current_time)
                  IN  [ret |-> TRUE,
                       E |-> [E EXCEPT
                                !.objects[id] = new_animation,
                                !.current_animation = <<id>>,
                                !.current_animation_name = animation_name,
                                !.emitted = Append(@, AnimationCurrentFrame(new_animation))]]
             ELSE [ret |-> FALSE, E |-> E]

\* set_skin selecting the skin before it knows that the skin loads
M_SetSkinSelectsFirst(E, skin, current_time) ==
    LET E1 == [E EXCEPT !.current_skin = skin, !.config_current_skin = skin]
        l == IF skin \notin DOMAIN E.animations THEN load_skin(E1, skin)
             ELSE [ret |-> TRUE, E |-> E1]
    IN  IF ~l.ret THEN [ret |-> FALSE, E |-> E1]
        ELSE [ret |-> TRUE, E |-> set_animation(l.E, l.E.current_animation_name, current_time).E]

\* set_skin loading the skin on every call
M_SetSkinAlwaysLoads(E, skin, current_time) ==
    LET l == load_skin(E, skin)
        E2 == [l.E EXCEPT !.current_skin = skin, !.config_current_skin = skin]
    IN  IF ~l.ret THEN [ret |-> FALSE, E |-> E]
        ELSE [ret |-> TRUE, E |-> set_animation(E2, E2.current_animation_name, current_time).E]

\* AnimationEngine.set_skin, lines 182-201
set_skin(E, skin, current_time) ==
    LET l == IF skin \notin DOMAIN E.animations THEN load_skin(E, skin)
             ELSE [ret |-> TRUE, E |-> E]
        E2 == [l.E EXCEPT !.current_skin = skin, !.config_current_skin = skin]
    IN  IF ~l.ret THEN [ret |-> FALSE, E |-> E]
        ELSE [ret |-> TRUE, E |-> set_animation(E2, E2.current_animation_name, current_time).E]

\* start trying active before calm
M_StartTriesActiveFirst(E, current_time) ==
    IF E.timer_active THEN E
    ELSE LET calm == set_animation(E, "calm", current_time)
             active == set_animation(E, "active", current_time)
             idle == set_animation(E, "idle", current_time)
             E2 == IF E.current_animation # None THEN E
                   ELSE IF active.ret THEN active.E
                   ELSE IF calm.ret THEN calm.E
                   ELSE idle.E
         IN  [E2 EXCEPT !.timer_active = TRUE]

\* AnimationEngine.start, lines 233-244
start(E, current_time) ==
    IF E.timer_active THEN E
    ELSE LET calm == set_animation(E, "calm", current_time)
             active == set_animation(E, "active", current_time)
             idle == set_animation(E, "idle", current_time)
             E2 == IF E.current_animation # None THEN E
                   ELSE IF calm.ret THEN calm.E
                   ELSE IF active.ret THEN active.E
                   ELSE idle.E
         IN  [E2 EXCEPT !.timer_active = TRUE]

\* AnimationEngine.stop, lines 246-248
stop(E) == [E EXCEPT !.timer_active = FALSE]

\* _update_frame emitting the current frame on every tick
M_UpdateFrameAlwaysEmits(E, current_time) ==
    IF E.current_animation = None THEN [ret |-> FALSE, E |-> E]
    ELSE LET id == E.current_animation[1]
             adv == advance_frame(E.objects[id], current_time)
         IN  [ret |-> adv.ret,
              E |-> [E EXCEPT !.objects[id] = adv.a,
                              !.emitted = Append(@, AnimationCurrentFrame(adv.a))]]

\* AnimationEngine._update_frame, lines 250-255: whether the frame advanced,
\* and the engine after it
update_frame(E, current_time) ==
    IF E.current_animation = None THEN [ret |-> FALSE, E |-> E]
    ELSE LET id == E.current_animation[1]
             adv == advance_frame(E.objects[id], current_time)
         IN  IF adv.ret
             THEN [ret |-> TRUE,
                   E |-> [E EXCEPT !.objects[id] = adv.a,
                                   !.emitted = Append(@, AnimationCurrentFrame(adv.a))]]
             ELSE [ret |-> FALSE, E |-> [E EXCEPT !.objects[id] = adv.a]]

\* AnimationEngine.get_current_frame, lines 257-261
get_current_frame(E) ==
    IF E.current_animation # None
    THEN AnimationCurrentFrame(E.objects[E.current_animation[1]])
    ELSE NullPixmap

\* AnimationEngine.reload_skin, lines 276-294
reload_skin(E, skin_or_none) ==
    LET skin == IF skin_or_none = None THEN E.current_skin ELSE skin_or_none[1]
        E2 == [E EXCEPT !.animations =
                  [sk \in DOMAIN E.animations \ {skin} |-> E.animations[sk]]]
    IN  load_skin(Collect(E2), skin)

-----------------------------------------------------------------------------
(* The scheduler driven by its callers and by its timer *)

MaxAnimClock == 4

\* the state after AnimationEngine(config), lines 72-88
InitAnim ==
    /\ ClsIdle
    /\ MonIdle
    /\ \E configured_skin \in ConfiguredSkins :
          /\ engine = load_skin(NewEngine(configured_skin), configured_skin).E
          /\ aev = [NoAnimEvent EXCEPT !.op = "init", !.arg = configured_skin]
    /\ app = AppIdle

AnimReady == aev.op \in {"none", "init"}

\* an engine call made at the current time: the event it leaves
Called(op, arg, ret, E) ==
    /\ engine' = Collect(E)
    /\ aev' = [op |-> op, arg |-> arg, ret |-> ret,
               pre |-> IF engine.current_animation = None THEN None
                       ELSE <<engine.objects[engine.current_animation[1]]>>]
    /\ UNCHANGED clsVars

\* the caller has its result and the display has the frames emitted
AnimReturned ==
    /\ ~AnimReady
    /\ aev' = NoAnimEvent
    /\ engine' = [engine EXCEPT !.emitted = <<>>]
    /\ UNCHANGED <<clsVars, monVars, app>>

AnimElapse ==
    /\ AnimReady
    /\ clock < Epoch + MaxAnimClock
    /\ clock' = clock + 1
    /\ aev' = NoAnimEvent
    /\ UNCHANGED <<clsVars, engine, app, last_network_io, last_network_time,
                   cpu_percent_cache, os_sent, os_recv, sample, ev, hist>>

Start ==
    /\ AnimReady
    /\ Called("start", "", TRUE, start(engine, NowMs(clock)))
    /\ UNCHANGED <<monVars, app>>

Stop ==
    /\ AnimReady
    /\ Called("stop", "", TRUE, stop(engine))
    /\ UNCHANGED <<monVars, app>>

SetAnimation(animation_name) ==
    /\ AnimReady
    /\ LET r == set_animation(engine, animation_name, NowMs(clock))
       IN  Called("set_animation", animation_name, r.ret, r.E)
    /\ UNCHANGED <<monVars, app>>

SetSkin(skin) ==
    /\ AnimReady
    /\ LET r == set_skin(engine, skin, NowMs(clock))
       IN  Called("set_skin", skin, r.ret, r.E)
    /\ UNCHANGED <<monVars, app>>

ReloadSkin(skin_or_none) ==
    /\ AnimReady
    /\ LET r == reload_skin(engine, skin_or_none)
       IN  Called("reload_skin", skin_or_none, r.ret, r.E)
    /\ UNCHANGED <<monVars, app>>

\* the 16 ms timer of lines 83-85 fires
UpdateFrame ==
    /\ AnimReady
    /\ engine.timer_active
    /\ LET r == update_frame(engine, NowMs(clock))
       IN  Called("update_frame", "", r.ret, r.E)
    /\ UNCHANGED <<monVars, app>>

NextAnim ==
    \/ AnimElapse
    \/ Start
    \/ Stop
    \/ \E animation_name \in AnimationNames : SetAnimation(animation_name)
    \/ \E skin \in SkinNames : SetSkin(skin)
    \/ \E skin_or_none \in {None} \cup {<<sk>> : sk \in SkinNames} : ReloadSkin(skin_or_none)
    \/ UpdateFrame
    \/ AnimReturned

SpecAnim == InitAnim /\ [][NextAnim]_vars

-----------------------------------------------------------------------------
(* Claims about the scheduler *)

\* the active Animation after the call in progress
ActiveAnimation == engine.objects[engine.current_animation[1]]

\* C10: advance() on the active sequence, called before the sequence's frame
\* duration has elapsed since its last advance or reset, leaves the index and
\* the timestamp unchanged and reports no change; called when the duration
\* has elapsed it adds exactly one to the index modulo the sequence length,
\* however many durations have elapsed, and sets the timestamp to now.
C10_AdvanceWhenDue ==
    (aev.op = "update_frame" /\ aev.pre # None) =>
        LET before == aev.pre[1]
            after == ActiveAnimation
            now == NowMs(clock)
        IN  IF now - before.last_frame_time >= before.frame_duration_ms
            THEN /\ after.current_frame = (before.current_frame + 1) % Len(before.frames)
                 /\ after.last_frame_time = now
                 /\ aev.ret
            ELSE /\ after.current_frame = before.current_frame
                 /\ after.last_frame_time = before.last_frame_time
                 /\ ~aev.ret

\* an advance made when two frame durations or more have elapsed
C10_Witness ==
    /\ aev.op = "update_frame" /\ aev.pre # None
    /\ aev.pre[1].frame_duration_ms > 0
    /\ NowMs(clock) - aev.pre[1].last_frame_time >= 2 * aev.pre[1].frame_duration_ms
    /\ aev.ret
    /\ ActiveAnimation.current_frame = aev.pre[1].current_frame + 1

\* a call before the duration has elapsed
C10_WitnessEarly ==
    /\ aev.op = "update_frame" /\ aev.pre # None
    /\ NowMs(clock) - aev.pre[1].last_frame_time < aev.pre[1].frame_duration_ms
    /\ ~aev.ret

\* an advance from the last frame back to the first
C10_WitnessWrap ==
    /\ aev.op = "update_frame" /\ aev.pre # None
    /\ aev.pre[1].frame_duration_ms > 0
    /\ aev.pre[1].current_frame = Len(aev.pre[1].frames) - 1
    /\ aev.ret
    /\ ActiveAnimation.current_frame = 0

\* the catalog of the current skin: the names set_animation can find
Catalog(E) ==
    IF E.current_skin \in DOMAIN E.animations
    THEN DOMAIN E.animations[E.current_skin] ELSE {}

\* C11: set_animation with a name absent from the current skin's catalog
\* returns failure and leaves the scheduler unchanged: the active sequence
\* reference, the active state name, the active sequence's index and
\* timestamp are untouched and no frame-changed notification is emitted.
C11_AbsentNameChangesNothing ==
    [][(/\ AnimReady
        /\ aev'.op = "set_animation"
        /\ aev'.arg \notin Catalog(engine))
       => /\ ~aev'.ret
          /\ engine'.current_animation = engine.current_animation
          /\ engine'.current_animation_name = engine.current_animation_name
          /\ engine'.objects = engine.objects
          /\ engine'.emitted = <<>>
          /\ engine' = engine]_vars

\* a failed set_animation while a sequence that has advanced is active
C11_Witness ==
    /\ aev.op = "set_animation"
    /\ aev.arg \notin Catalog(engine)
    /\ ~aev.ret
    /\ aev.pre # None
    /\ aev.pre[1].current_frame > 0
    /\ ActiveAnimation = aev.pre[1]
    /\ engine.current_animation_name = aev.pre[1].name
    /\ engine.emitted = <<>>

\* C12: a successful set_animation(name) resets the target sequence (index 0,
\* timestamp now), makes it the active sequence, and emits exactly one
\* frame-changed notification carrying the sequence's first frame.
C12_SuccessResetsAndEmits ==
    (aev.op = "set_animation" /\ aev.ret) =>
        /\ aev.arg \in Catalog(engine)
        /\ engine.current_animation = <<engine.animations[engine.current_skin][aev.arg]>>
        /\ engine.current_animation_name = aev.arg
        /\ ActiveAnimation.name = aev.arg
        /\ ActiveAnimation.current_frame = 0
        /\ ActiveAnimation.last_frame_time = NowMs(clock)
        /\ engine.emitted = <<ActiveAnimation.frames[1]>>

\* the active sequence, advanced past its first frame at an earlier time, is
\* set again
C12_Witness ==
    /\ aev.op = "set_animation" /\ aev.ret
    /\ aev.pre # None
    /\ aev.pre[1].name = aev.arg
    /\ aev.pre[1].current_frame > 0
    /\ aev.pre[1].last_frame_time < NowMs(clock)
    /\ ActiveAnimation.current_frame = 0
    /\ Len(engine.emitted) = 1

Unresolvable(skin) ==
    \/ skin \notin SkinDirs
    \/ skin \notin DOMAIN SkinsConfig
    \/ \A nm \in DOMAIN SkinsConfig[skin].animations :
          Get(Get(FrameFiles, skin, EmptyDict), nm, 0) = 0

\* C22: set_skin(name) for a skin that cannot be resolved returns false with
\* no state change: the catalog, the current skin, the configured current
\* skin, the active sequence and its index are as before the call, and no
\* notification is emitted.
C22_FailedSkinChangesNothing ==
    [][(/\ AnimReady
        /\ aev'.op = "set_skin"
        /\ aev'.arg \notin DOMAIN engine.animations
        /\ Unresolvable(aev'.arg))
       => /\ ~aev'.ret
          /\ engine'.animations = engine.animations
          /\ engine'.current_skin = engine.current_skin
          /\ engine'.config_current_skin = engine.config_current_skin
          /\ engine'.current_animation = engine.current_animation
          /\ engine'.current_animation_name = engine.current_animation_name
          /\ engine'.objects = engine.objects
          /\ engine'.emitted = <<>>]_vars

\* a failed set_skin while a sequence that has advanced is active
C22_Witness ==
    /\ aev.op = "set_skin"
    /\ Unresolvable(aev.arg)
    /\ ~aev.ret
    /\ aev.pre # None
    /\ aev.pre[1].current_frame > 0
    /\ ActiveAnimation = aev.pre[1]
    /\ engine.current_skin # aev.arg
    /\ engine.config_current_skin # aev.arg
    /\ aev.arg \notin DOMAIN engine.animations
    /\ engine.emitted = <<>>

\* the names of a skin's configuration whose directory holds a frame
Loadable(skin) ==
    {nm \in DOMAIN Get(get_skin_info(skin), "animations", EmptyDict) :
        Get(Get(FrameFiles, skin, EmptyDict), nm, 0) > 0}

\* C23: skin loading is lazy and idempotent: set_skin of a skin not yet in the
\* catalog loads all its sequences together, and set_skin of a skin already
\* in the catalog performs no load and leaves its catalog entry (the same
\* sequence objects) in place.
C23_LoadOnceOnly ==
    [][(AnimReady /\ aev'.op = "set_skin") =>
          IF aev'.arg \in DOMAIN engine.animations
          THEN /\ aev'.ret
               /\ engine'.animations = engine.animations
               /\ \A id \in DOMAIN engine'.objects : id \in DOMAIN engine.objects
          ELSE aev'.ret =>
                  /\ DOMAIN engine'.animations = DOMAIN engine.animations \cup {aev'.arg}
                  /\ DOMAIN engine'.animations[aev'.arg] = Loadable(aev'.arg)
                  /\ \A sk \in DOMAIN engine.animations :
                        engine'.animations[sk] = engine.animations[sk]]_vars

\* set_skin of a loaded skin: a sequence of that skin other than the one made
\* active still carries the timestamp of its earlier activation
C23_Witness ==
    /\ aev.op = "set_skin" /\ aev.ret
    /\ engine.current_skin = aev.arg
    /\ engine.current_animation # None
    /\ \E nm \in DOMAIN engine.animations[aev.arg] :
          /\ engine.animations[aev.arg][nm] # engine.current_animation[1]
          /\ engine.objects[engine.animations[aev.arg][nm]].last_frame_time > 0

\* C24: in every reachable state every skin in the catalog has at least one
\* sequence and every sequence in the catalog has at least one frame; a skin
\* whose load produces no non-empty sequence is not in the catalog.
C24_CatalogNonEmpty ==
    \A sk \in DOMAIN engine.animations :
        /\ DOMAIN engine.animations[sk] # {}
        /\ \A nm \in DOMAIN engine.animations[sk] :
              /\ engine.animations[sk][nm] \in DOMAIN engine.objects
              /\ engine.objects[engine.animations[sk][nm]].frames # <<>>
        /\ Loadable(sk) # {}

\* the load of a skin that has a directory and a configuration and no frame
\* has failed, and the catalog holds another skin
C24_Witness ==
    /\ aev.op \in {"set_skin", "reload_skin"}
    /\ aev.arg \in {"empty", <<"empty">>}
    /\ ~aev.ret
    /\ "empty" \notin DOMAIN engine.animations
    /\ DOMAIN engine.animations # {}

\* the first of calm, active, idle in the catalog E, or None
FirstPresent(E) ==
    IF "calm" \in Catalog(E) THEN <<"calm">>
    ELSE IF "active" \in Catalog(E) THEN <<"active">>
    ELSE IF "idle" \in Catalog(E) THEN <<"idle">>
    ELSE None

\* C25: when the scheduler is started and no state has been set, it tries
\* calm, then active, then idle and activates the first one present in the
\* current skin's catalog; if none is present no sequence becomes active; the
\* render timer is started in either case.
C25_StartFallbackOrder ==
    [][(/\ AnimReady
        /\ aev'.op = "start"
        /\ ~engine.timer_active
        /\ engine.current_animation = None)
       => /\ engine'.timer_active
          /\ IF FirstPresent(engine) = None
             THEN /\ engine'.current_animation = None
                  /\ engine'.current_animation_name = engine.current_animation_name
                  /\ engine'.emitted = <<>>
             ELSE /\ engine'.current_animation =
                        <<engine.animations[engine.current_skin][FirstPresent(engine)[1]]>>
                  /\ engine'.current_animation_name = FirstPresent(engine)[1]]_vars

\* started with calm and active both absent: idle became active
C25_Witness ==
    /\ aev.op = "start"
    /\ aev.pre = None
    /\ engine.timer_active
    /\ Catalog(engine) = {"idle"}
    /\ engine.current_animation # None
    /\ ActiveAnimation.name = "idle"

\* started with none of the three present: the timer runs, nothing is active
C25_WitnessNone ==
    /\ aev.op = "start"
    /\ engine.timer_active
    /\ engine.current_animation = None

\* the frame at the current index of the active sequence
ActiveFrame == ActiveAnimation.frames[ActiveAnimation.current_frame + 1]

\* C30: a frame-changed notification is emitted exactly when a render tick
\* advances the active sequence or a set_animation call succeeds (called by
\* its caller, by set_skin or by start), and it carries the frame at the
\* active sequence's current index; a render tick that does not advance, a
\* failed set_animation and a tick with no active sequence emit nothing.
C30_EmitsExactlyOnChange ==
    /\ AnimReady => engine.emitted = <<>>
    /\ aev.op \in {"update_frame", "set_animation"} =>
          engine.emitted = IF aev.ret THEN <<ActiveFrame>> ELSE <<>>
    /\ (aev.op = "update_frame" /\ aev.pre = None) => ~aev.ret
    /\ aev.op = "set_skin" =>
          engine.emitted = IF aev.ret /\ engine.current_animation_name \in Catalog(engine)
                           THEN <<ActiveFrame>> ELSE <<>>
    /\ aev.op = "start" =>
          engine.emitted = IF aev.pre = None /\ engine.current_animation # None
                           THEN <<ActiveFrame>> ELSE <<>>
    /\ aev.op \in {"stop", "reload_skin"} => engine.emitted = <<>>

\* a render tick that advanced to a frame other than the first
C30_Witness ==
    /\ aev.op = "update_frame"
    /\ aev.ret
    /\ ActiveAnimation.current_frame > 0
    /\ engine.emitted = <<ActiveFrame>>

\* a render tick that did not advance, with a sequence active
C30_WitnessQuiet ==
    /\ aev.op = "update_frame"
    /\ aev.pre # None
    /\ ~aev.ret
    /\ engine.emitted = <<>>

-----------------------------------------------------------------------------
(* TuxTrayApp (src/src/main.py): the poll timer and the render timer on    *)
(* the one main thread, quit from the tray menu and quit from the signal   *)
(* handler.  A timer slot runs to its end before the event loop runs the   *)
(* next one; the signal handler of lines 169-174 is run by the interpreter *)
(* inside whatever Python code the main thread is executing.               *)

MaxAppClock == 4

\* what psutil answers to a poll: a cpu reading, with memory and the network quiet
AppCpuReads == {Read(10), Read(40), Read(65)}
AppRamRead == Read(10)

\* SystemMonitor.get_system_stats, lines 106-113, as a function of the fields
\* and the answers of the OS
get_system_stats(cache, io, tm, cpu_read, ram_read, net_read, sent, recv, now) ==
    LET c == get_cpu_usage(cache, cpu_read)
        r == get_ram_usage(ram_read)
        n == get_network_usage(io, tm, net_read, sent, recv, now)
        before_net == c.ret.raised \/ r.raised
    IN  [cache |-> c.cache,
         io |-> IF before_net THEN io ELSE n.io,
         tm |-> IF before_net THEN tm ELSE n.tm,
         raised |-> before_net \/ n.ret.raised,
         stats |-> SystemStats(c.ret.val, r.val, n.ret.val, now)]

\* update_system_stats with the test of line 93 inverted
M_PollSetsOnEqual(E, new_state, current_time) ==
    IF new_state = E.current_animation_name
    THEN LET r == set_animation(E, new_state, current_time)
         IN  [called |-> TRUE, ret |-> r.ret, E |-> r.E]
    ELSE [called |-> FALSE, ret |-> FALSE, E |-> E]

\* update_system_stats calling set_animation whatever the active state is
M_PollAlwaysSets(E, new_state, current_time) ==
    LET r == set_animation(E, new_state, current_time)
    IN  [called |-> TRUE, ret |-> r.ret, E |-> r.E]

\* TuxTrayApp.update_system_stats, lines 92-94: the animation is set when the
\* state differs from the name the engine holds
update_system_stats(E, new_state, current_time) ==
    IF new_state # E.current_animation_name
    THEN LET r == set_animation(E, new_state, current_time)
         IN  [called |-> TRUE, ret |-> r.ret, E |-> r.E]
    ELSE [called |-> FALSE, ret |-> FALSE, E |-> E]

\* TuxTrayApp.quit, lines 130-138; saved is what was running when
\* save_config was called
quit(E, A) ==
    LET E1 == stop(E)
        A1 == [A EXCEPT !.poll_timer = FALSE]
        A2 == [A1 EXCEPT !.saved = <<[render |-> E1.timer_active,
                                      poll |-> A1.poll_timer]>>]
    IN  [E |-> E1, A |-> [A2 EXCEPT !.exiting = TRUE]]

\* the clock at the latest reset or advance of the active sequence: both emit
\* its frame (animation_engine.py lines 221-227, 253-255)
ChangedAt(E) == IF E.emitted # <<>> THEN clock ELSE app.changed_at

\* the state after TuxTrayApp(), lines 27-43, with the default configuration
InitApp ==
    /\ ClsIdle
    /\ clock = Epoch
    /\ os_sent = 0
    /\ os_recv = 0
    /\ cpu_percent_cache = 0
    /\ LET b == InitNetworkBaseline("ok", os_sent, os_recv, clock)
       IN  /\ last_network_io = b.io
           /\ last_network_time = b.tm
    /\ sample = NoSample
    /\ ev = NoEvent
    /\ hist = NoHistory
    /\ engine = load_skin(NewEngine("default"), "default").E
    /\ aev = [NoAnimEvent EXCEPT !.op = "init", !.arg = "default"]
    /\ app = AppIdle

AppElapse ==
    /\ AnimReady
    /\ clock < Epoch + MaxAppClock
    /\ clock' = clock + 1
    /\ aev' = NoAnimEvent
    /\ UNCHANGED <<clsVars, engine, app, last_network_io, last_network_time,
                   cpu_percent_cache, os_sent, os_recv, sample, ev, hist>>

\* TuxTrayApp.start, lines 62-63; the initial update of line 66 is next
AppStart ==
    /\ AnimReady
    /\ ~app.started
    /\ LET E == start(engine, NowMs(clock))
       IN  /\ Called("start", "", TRUE, E)
           /\ app' = [app EXCEPT !.started = TRUE, !.poll_timer = TRUE,
                                 !.slot = "initial", !.changed_at = ChangedAt(E)]
    /\ UNCHANGED monVars

\* update_system_stats, lines 78-90, entered from the poll timer or from
\* start(): the sample and the state it classifies to
PollSample(cpu_read) ==
    /\ AnimReady
    /\ \/ app.slot = "initial"
       \/ app.slot = "loop" /\ app.poll_timer /\ ~app.exiting
    /\ LET g == get_system_stats(cpu_percent_cache, last_network_io, last_network_time,
                                 cpu_read, AppRamRead, "ok", os_sent, os_recv, clock)
       IN  /\ cpu_percent_cache' = g.cache
           /\ last_network_io' = g.io
           /\ last_network_time' = g.tm
           /\ sample' = IF g.raised THEN NoSample ELSE g.stats
           /\ app' = IF g.raised THEN [app EXCEPT !.slot = "loop"]
                     ELSE [app EXCEPT
                             !.slot = "poll",
                             !.new_state =
                                determine_emotion_state(g.stats, DefaultEmotionThresholds)]
    /\ aev' = NoAnimEvent
    /\ UNCHANGED <<clsVars, engine, clock, os_sent, os_recv, ev, hist>>

\* update_system_stats, lines 92-94, and the return to the event loop
PollApply ==
    /\ AnimReady
    /\ app.slot = "poll"
    /\ LET r == update_system_stats(engine, app.new_state, NowMs(clock))
       IN  /\ Called(IF r.called THEN "set_animation" ELSE "poll",
                     app.new_state, r.ret, r.E)
           /\ app' = [app EXCEPT !.slot = "loop", !.new_state = "",
                                 !.changed_at = ChangedAt(r.E),
                                 !.failed_poll = @ \/ (r.called /\ ~r.ret)]
    /\ UNCHANGED monVars

\* the render timer of animation_engine.py lines 83-85 fires: _update_frame
\* is entered
RenderFire ==
    /\ AnimReady
    /\ app.slot = "loop"
    /\ app.started
    /\ ~app.exiting
    /\ engine.timer_active
    /\ app' = [app EXCEPT !.slot = "render"]
    /\ aev' = NoAnimEvent
    /\ UNCHANGED <<clsVars, monVars, engine>>

\* _update_frame, animation_engine.py lines 250-255
RenderRun ==
    /\ AnimReady
    /\ app.slot = "render"
    /\ LET r == update_frame(engine, NowMs(clock))
       IN  /\ Called("update_frame", "", r.ret, r.E)
           /\ app' = [app EXCEPT !.slot = "loop", !.changed_at = ChangedAt(r.E)]
    /\ UNCHANGED monVars

\* Quit chosen in the tray menu: quit_requested is delivered by the event loop
MenuQuit ==
    /\ AnimReady
    /\ app.slot = "loop"
    /\ app.started
    /\ ~app.exiting
    /\ LET q == quit(engine, app)
       IN  /\ Called("quit", "", TRUE, q.E)
           /\ app' = q.A
    /\ UNCHANGED monVars

\* SIGINT or SIGTERM: sigint_handler, lines 169-174, runs quit() inside the
\* slot the main thread is executing, and the slot then goes on
SignalQuit ==
    /\ AnimReady
    /\ app.slot \in {"poll", "render"}
    /\ ~app.exiting
    /\ LET q == quit(engine, app)
       IN  /\ Called("quit", "", TRUE, q.E)
           /\ app' = q.A
    /\ UNCHANGED monVars

NextApp ==
    \/ AppElapse
    \/ AppStart
    \/ \E cpu_read \in AppCpuReads : PollSample(cpu_read)
    \/ PollApply
    \/ RenderFire
    \/ RenderRun
    \/ MenuQuit
    \/ SignalQuit
    \/ AnimReturned

SpecApp == InitApp /\ [][NextApp]_vars

\* an engine effect of a tick: a sequence reset or advanced, the active
\* sequence replaced, a frame notified
TickEffect ==
    \/ engine'.objects # engine.objects
    \/ engine'.current_animation # engine.current_animation
    \/ engine'.emitted # <<>>

\* a slot is entered: a timer tick fires
TickFires == app.slot = "loop" /\ app'.slot # "loop"

\* C26: on quit both the render timer and the poll timer are stopped before
\* the configuration is saved, and once shutdown has begun no poll tick and
\* no render tick fires: no sample, no set_animation, no advance, no
\* frame-changed notification.
C26_Cancellation ==
    [][/\ app'.saved # None => ~app'.saved[1].render /\ ~app'.saved[1].poll
       /\ (AnimReady /\ app.exiting) => ~TickFires /\ ~TickEffect]_vars

\* the part of C26 that holds: the timers are stopped before the save
C26_StoppedBeforeSave ==
    app.saved # None => ~app.saved[1].render /\ ~app.saved[1].poll

\* the part of C26 that holds: no timer fires once shutdown has begun
C26_NoTickFiresAfterQuit ==
    [][app.exiting => ~TickFires]_vars

\* the poll slot makes its update
PollStep == AnimReady /\ app.slot = "poll" /\ app'.slot = "loop"

\* C27: a poll tick replaces the active-sequence reference or leaves it, and
\* never changes the index or the timestamp of the sequence active when it
\* runs; the index of the active sequence changes under a reference that
\* stays only in a render tick.
C27_SingleWriter ==
    [][/\ (PollStep /\ engine.current_animation # None) =>
             LET id == engine.current_animation[1]
             IN  /\ id \in DOMAIN engine'.objects
                 /\ engine'.objects[id].current_frame = ActiveAnimation.current_frame
                 /\ engine'.objects[id].last_frame_time = ActiveAnimation.last_frame_time
                 /\ engine'.objects[id] = ActiveAnimation
       /\ (/\ AnimReady
           /\ engine.current_animation # None
           /\ engine'.current_animation = engine.current_animation
           /\ engine'.objects[engine.current_animation[1]] # ActiveAnimation)
          => /\ app.slot = "render"
             /\ aev'.op = "update_frame"]_vars

\* a poll tick has replaced a sequence that had advanced, and that sequence
\* keeps its index
C27_Witness ==
    /\ aev.op = "set_animation"
    /\ aev.ret
    /\ aev.pre # None
    /\ aev.pre[1].current_frame > 0
    /\ \E id \in DOMAIN engine.objects :
          /\ engine.objects[id] = aev.pre[1]
          /\ engine.current_animation # <<id>>

\* C28: a poll tick whose label is absent from the current skin's catalog
\* fails in set_animation and leaves the engine running its active sequence:
\* reference, name, index and timestamp stay, nothing is notified, both
\* timers keep running; afterwards a due render tick advances the sequence
\* and a poll tick with a label of the catalog switches to it.
C28_AbsentLabelKeepsRunning ==
    [][/\ (PollStep /\ app.new_state \notin Catalog(engine)) =>
             /\ aev'.op = "set_animation" => ~aev'.ret
             /\ engine'.current_animation = engine.current_animation
             /\ engine'.current_animation_name = engine.current_animation_name
             /\ engine'.objects = engine.objects
             /\ engine'.emitted = <<>>
             /\ engine'.timer_active = engine.timer_active
             /\ app'.poll_timer = app.poll_timer
       /\ (/\ AnimReady
           /\ app.failed_poll
           /\ app.slot = "render"
           /\ app'.slot = "loop"
           /\ engine.current_animation # None
           /\ ActiveAnimation.frames # <<>>
           /\ NowMs(clock) - ActiveAnimation.last_frame_time
                 >= ActiveAnimation.frame_duration_ms) =>
             /\ aev'.ret
             /\ engine'.objects[engine.current_animation[1]].current_frame
                   = (ActiveAnimation.current_frame + 1) % Len(ActiveAnimation.frames)
       /\ (/\ PollStep
           /\ app.failed_poll
           /\ app.new_state \in Catalog(engine)
           /\ app.new_state # engine.current_animation_name) =>
             /\ aev'.ret
             /\ engine'.current_animation_name = app.new_state
             /\ engine'.current_animation
                   = <<engine.animations[engine.current_skin][app.new_state]>>]_vars

\* a poll tick with an absent label has failed while a sequence that had
\* advanced was active
C28_Witness ==
    /\ aev.op = "set_animation"
    /\ ~aev.ret
    /\ aev.arg \notin Catalog(engine)
    /\ engine.current_animation # None
    /\ ActiveAnimation.current_frame > 0
    /\ engine.timer_active
    /\ app.poll_timer

\* after a failed poll tick a render tick has advanced the sequence
C28_WitnessAdvance ==
    /\ app.failed_poll
    /\ aev.op = "update_frame"
    /\ aev.ret
    /\ ~app.exiting

\* after a failed poll tick a later poll tick has switched the state
C28_WitnessSwitch ==
    /\ app.failed_poll
    /\ aev.op = "set_animation"
    /\ aev.ret
    /\ ~app.exiting

\* a render tick is about to change the index of the active sequence
C29_IndexChanges ==
    /\ AnimReady
    /\ aev'.op = "update_frame"
    /\ aev'.ret

-----------------------------------------------------------------------------
(* get_current_frame as a call that can fail *)

\* frames[current_frame] of Python: IndexError outside -len .. len - 1
ListItem(frames, i) ==
    IF i \in 0..(Len(frames) - 1) THEN Return(frames[i + 1])
    ELSE IF i \in (0 - Len(frames))..(0 - 1) THEN Return(frames[Len(frames) + i + 1])
    ELSE Raise

\* Animation.get_current_frame, lines 37-41, with the exception it can raise
AnimationGetCurrentFrame(a) ==
    IF a.frames = <<>> THEN Return(NullPixmap)
    ELSE ListItem(a.frames, a.current_frame)

\* get_current_frame without the test of line 259
M_GetCurrentFrameNoTest(E) ==
    IF E.current_animation # None
    THEN AnimationGetCurrentFrame(E.objects[E.current_animation[1]])
    ELSE Raise

\* AnimationEngine.get_current_frame, lines 257-261, with the exception it
\* can raise
GetCurrentFrame(E) ==
    IF E.current_animation # None
    THEN AnimationGetCurrentFrame(E.objects[E.current_animation[1]])
    ELSE Return(NullPixmap)

\* C31: in every reachable state get_current_frame raises nothing; it returns
\* the frame at the current index of the active sequence when one is active,
\* and the empty pixmap when none is active or the sequence has no frames.
C31_CurrentFrameNeverFails ==
    /\ ~GetCurrentFrame(engine).raised
    /\ get_current_frame(engine) = GetCurrentFrame(engine).val
    /\ engine.current_animation = None => GetCurrentFrame(engine).val = NullPixmap
    /\ engine.current_animation # None =>
          /\ ActiveAnimation.frames = <<>> => GetCurrentFrame(engine).val = NullPixmap
          /\ ActiveAnimation.frames # <<>> =>
                /\ ActiveAnimation.current_frame \in 0..(Len(ActiveAnimation.frames) - 1)
                /\ GetCurrentFrame(engine).val
                      = ActiveAnimation.frames[ActiveAnimation.current_frame + 1]

\* the active sequence is at its last frame
C31_Witness ==
    /\ engine.current_animation # None
    /\ ActiveAnimation.current_frame = Len(ActiveAnimation.frames) - 1
    /\ ActiveAnimation.current_frame > 0
    /\ GetCurrentFrame(engine).val = ActiveAnimation.frames[Len(ActiveAnimation.frames)]

\* the engine has been started and no sequence is active
C31_WitnessNone ==
    /\ engine.current_animation = None
    /\ engine.timer_active
    /\ GetCurrentFrame(engine) = Return(NullPixmap)

-----------------------------------------------------------------------------
(* The active sequence and the catalog *)

\* the sequence the catalog of the current skin holds under the current
\* state name, if any
CatalogEntry(E) ==
    IF E.current_animation_name \in Catalog(E)
    THEN <<E.animations[E.current_skin][E.current_animation_name]>>
    ELSE None

\* C32: whenever a sequence is active it is the catalog entry of the current
\* skin under the current state name.
C32_ActiveIsCatalogEntry ==
    engine.current_animation # None => engine.current_animation = CatalogEntry(engine)

\* the part of C32 that holds: it is so after every successful set_animation
C32_AfterSetAnimation ==
    (aev.op = "set_animation" /\ aev.ret) =>
        /\ engine.current_animation # None
        /\ engine.current_animation = CatalogEntry(engine)

-----------------------------------------------------------------------------
(* A poll tick with a stable label *)

\* C33: a poll tick whose label equals the current state name calls no
\* set_animation, leaves every sequence's index and timestamp as they are
\* and emits nothing; set_animation is called exactly on a poll tick whose
\* label differs from the current state name.
C33_StableLabelNoRestart ==
    [][PollStep =>
          /\ app.new_state = engine.current_animation_name =>
                /\ aev'.op = "poll"
                /\ engine'.objects = engine.objects
                /\ engine'.current_animation = engine.current_animation
                /\ engine'.emitted = <<>>
                /\ app'.changed_at = app.changed_at
          /\ app.new_state # engine.current_animation_name =>
                /\ aev'.op = "set_animation"
                /\ aev'.arg = app.new_state]_vars

\* a poll tick with the label of the active sequence, which has advanced
C33_Witness ==
    /\ aev.op = "poll"
    /\ aev.arg = engine.current_animation_name
    /\ engine.current_animation # None
    /\ ActiveAnimation.current_frame > 0
    /\ aev.pre = <<ActiveAnimation>>

-----------------------------------------------------------------------------
(* The running animation: time without end.  The engine compares only      *)
(* differences of clock readings (advance_frame, line 52), so the clock    *)
(* and the stored timestamps are kept in a window: when the clock leaves   *)
(* it, clock and timestamps move back together by 1 ms.  A timestamp older *)
(* than every frame duration stays: its sequence is due either way.        *)

MaxLiveClock == 4

LiveStates == {"calm", "active"}

\* the longest frame duration of a sequence the engine holds
MaxDuration(E) ==
    LET durs == {E.objects[id].frame_duration_ms : id \in DOMAIN E.objects} \cup {0}
    IN  CHOOSE d \in durs : \A e \in durs : e <= d

\* clock and timestamps 1 ms earlier
Rebased(E) ==
    [E EXCEPT !.objects =
        [id \in DOMAIN E.objects |->
            [E.objects[id] EXCEPT !.last_frame_time =
                IF @ > NowMs(Epoch) - MaxDuration(E) THEN @ - 1 ELSE @]]]

\* the state after AnimationEngine(config) for the default skin
InitLive ==
    /\ ClsIdle
    /\ MonIdle
    /\ engine = load_skin(NewEngine("default"), "default").E
    /\ aev = [NoAnimEvent EXCEPT !.op = "init", !.arg = "default"]
    /\ app = AppIdle

\* time passes
LiveElapse ==
    /\ AnimReady
    /\ IF clock + 1 < Epoch + MaxLiveClock
       THEN /\ clock' = clock + 1
            /\ engine' = engine
       ELSE /\ clock' = clock + 1 - TicksPerMs
            /\ engine' = Rebased(engine)
    /\ aev' = NoAnimEvent
    /\ UNCHANGED <<clsVars, app, last_network_io, last_network_time,
                   cpu_percent_cache, os_sent, os_recv, sample, ev, hist>>

NextLive ==
    \/ LiveElapse
    \/ Start
    \/ \E animation_name \in LiveStates : SetAnimation(animation_name)
    \/ UpdateFrame
    \/ AnimReturned

\* the render timer keeps firing while it is active, time keeps passing and
\* every call returns
SpecLive ==
    /\ InitLive
    /\ [][NextLive]_vars
    /\ SF_vars(UpdateFrame)
    /\ SF_vars(LiveElapse)
    /\ WF_vars(AnimReturned)

\* the active sequence shows frame i, or has no frame i
Shows(i) ==
    /\ engine.current_animation # None
    /\ i < Len(ActiveAnimation.frames) => ActiveAnimation.current_frame = i

\* the engine is running a sequence and no set_animation is made
NotSwitched ==
    /\ engine.timer_active
    /\ engine.current_animation # None
    /\ aev.op # "set_animation"

-----------------------------------------------------------------------------
(* The index of a sequence *)

\* C35: in every reachable state the current index of every sequence of the
\* catalogs, and of the active sequence, is at least 0 and less than the
\* number of its frames.
C35_IndexInRange ==
    /\ \A sk \in DOMAIN engine.animations :
          \A nm \in DOMAIN engine.animations[sk] :
             LET a == engine.objects[engine.animations[sk][nm]]
             IN  /\ 0 <= a.current_frame
                 /\ a.current_frame < Len(a.frames)
    /\ engine.current_animation # None =>
          /\ 0 <= ActiveAnimation.current_frame
          /\ ActiveAnimation.current_frame < Len(ActiveAnimation.frames)

\* the active sequence is at its last frame after an advance, and another
\* sequence of the catalog, advanced and set aside, is not at its first
C35_Witness ==
    /\ aev.op = "update_frame"
    /\ aev.ret
    /\ engine.current_animation # None
    /\ ActiveAnimation.current_frame = Len(ActiveAnimation.frames) - 1
    /\ \E id \in DOMAIN engine.objects :
          /\ engine.current_animation # <<id>>
          /\ engine.objects[id].current_frame > 0

-----------------------------------------------------------------------------
(* The frame duration: one sequence of two frames, its fps drawn from the  *)
(* configuration, run by the engine                                        *)

\* the clock runs for this many milliseconds
MaxFpsMs == 43

\* "fps" values of a skin configuration
FpsVals == {0 - 1, 0, 300, 400, 600, 1000, 1001, 2000}

\* the state after AnimationEngine(config), lines 72-88, for a skin whose one
\* sequence has two frames and the given fps
FpsEngine(fps) ==
    LET id == <<"default", "calm", 0>>
    IN  [NewEngine("default") EXCEPT
            !.animations = [default |-> [calm |-> id]],
            !.objects = [i \in {id} |->
                            Animation("calm", <<<<"default", "calm", 1>>,
                                                <<"default", "calm", 2>>>>, fps, TRUE)],
            !.current_skin = "default"]

InitFps ==
    /\ ClsIdle
    /\ MonIdle
    /\ \E fps \in FpsVals : engine = FpsEngine(fps)
    /\ aev = [NoAnimEvent EXCEPT !.op = "init", !.arg = "default"]
    /\ app = AppIdle

FpsElapse ==
    /\ AnimReady
    /\ clock < Epoch + MaxFpsMs * TicksPerMs
    /\ clock' = clock + 1
    /\ aev' = NoAnimEvent
    /\ UNCHANGED <<clsVars, engine, app, last_network_io, last_network_time,
                   cpu_percent_cache, os_sent, os_recv, sample, ev, hist>>

NextFps ==
    \/ FpsElapse
    \/ Start
    \/ SetAnimation("calm")
    \/ UpdateFrame
    \/ AnimReturned

SpecFps == InitFps /\ [][NextFps]_vars

\* the milliseconds between the stored timestamp and the render tick
ElapsedMs == NowMs(clock) - aev.pre[1].last_frame_time

\* C36: the frame duration of a sequence is the whole number of
\* milliseconds floor(1000 / fps) when fps > 0 and 42 ms when fps <= 0; a
\* render tick advances exactly when the elapsed whole milliseconds are at
\* least that duration; for fps > 1000 the duration is 0 and every render
\* tick advances.
C36_FrameDuration ==
    /\ \A id \in DOMAIN engine.objects :
          LET a == engine.objects[id]
          IN  /\ a.fps > 0 => /\ a.frame_duration_ms * a.fps <= 1000
                              /\ (a.frame_duration_ms + 1) * a.fps > 1000
              /\ a.fps <= 0 => a.frame_duration_ms = 42
              /\ a.fps > 1000 => a.frame_duration_ms = 0
    /\ (aev.op = "update_frame" /\ aev.pre # None) =>
          /\ aev.ret <=> ElapsedMs >= aev.pre[1].frame_duration_ms
          /\ aev.pre[1].fps > 1000 => aev.ret
          /\ aev.ret =>
                /\ ElapsedMs >= 0
                /\ aev.pre[1].fps > 0 => (ElapsedMs + 1) * aev.pre[1].fps > 1000

\* a frame of a sequence whose fps does not divide 1000 has advanced before
\* 1000 / fps ms have passed since the stored timestamp
C36_Witness ==
    /\ aev.op = "update_frame"
    /\ aev.ret
    /\ aev.pre[1].fps > 0
    /\ aev.pre[1].current_frame > 0
    /\ (clock - aev.pre[1].last_frame_time * TicksPerMs) * aev.pre[1].fps
          < 1000 * TicksPerMs

\* a sequence with fps <= 0 has advanced after 42 ms
C36_WitnessFallback ==
    /\ aev.op = "update_frame"
    /\ aev.ret
    /\ aev.pre[1].fps <= 0
    /\ aev.pre[1].last_frame_time > 0
    /\ ElapsedMs = 42

\* a sequence with fps <= 0 has not advanced after 41 ms
C36_WitnessFallbackEarly ==
    /\ aev.op = "update_frame"
    /\ ~aev.ret
    /\ aev.pre # None
    /\ aev.pre[1].fps <= 0
    /\ ElapsedMs = 41

\* a sequence with fps > 1000 has advanced twice within a millisecond
C36_WitnessFast ==
    /\ aev.op = "update_frame"
    /\ aev.ret
    /\ aev.pre[1].fps > 1000
    /\ aev.pre[1].current_frame > 0
    /\ ElapsedMs = 0

-----------------------------------------------------------------------------
(* The state a poll tick forwards to the engine: update_system_stats,      *)
(* main.py lines 81-90, for every animation mode and both values of        *)
(* emotion_system_enabled, on the default thresholds                       *)

\* ConfigManager.get_thresholds, config_manager.py lines 91-93
get_thresholds(config, m) == Get(Get(config, "thresholds", EmptyDict), m, EmptyDict)

\* ConfigManager.get_emotion_thresholds, config_manager.py lines 133-135
get_emotion_thresholds(config) == Get(config, "emotion_thresholds", EmptyDict)

\* main.py lines 81-90: the emotion branch and the legacy branch
new_state(st, m, emotion_system_enabled, config) ==
    IF m = "emotion" /\ emotion_system_enabled
    THEN determine_emotion_state(st, get_emotion_thresholds(config))
    ELSE determine_animation_state(st, m, get_thresholds(config, m))

\* "animation_mode" values a configuration file can hold
PollModes == {"cpu", "ram", "network", "emotion", "disk"}

LegacyNames == {"idle", "walk", "run"}
CompositeNames == {"calm", "active", "busy", "stressed", "overloaded"}

\* a poll tick has its sample; the settings are those of the configuration
InitPoll ==
    /\ pc = "input"
    /\ mode \in PollModes
    /\ stats \in ScenarioSamples
    /\ thresholds = get_default_config
    /\ label = "none"
    /\ analysis = NoAnalysis
    /\ calls = NoCalls
    /\ MonIdle
    /\ engine = NewEngine("default")
    /\ aev = NoAnimEvent
    /\ \E enabled \in BOOLEAN :
          app = AppIdle @@ ("emotion_system_enabled" :> enabled)

PollClassify ==
    /\ pc = "input"
    /\ label' = new_state(stats, mode, app.emotion_system_enabled, thresholds)
    /\ pc' = "done"
    /\ UNCHANGED <<mode, stats, thresholds, analysis, calls, monVars, animVars>>

NextPoll == PollClassify

SpecPoll == InitPoll /\ [][NextPoll]_vars

\* the poll tick took the legacy branch
LegacyBranch == ~(mode = "emotion" /\ app.emotion_system_enabled)

\* C37: a poll tick that takes the legacy branch forwards one of idle, walk,
\* run; a composite label is forwarded only when the mode is emotion and
\* the emotion system is enabled.
C37_LegacyBranchLegacyNames ==
    pc = "done" =>
        /\ LegacyBranch => label \in LegacyNames
        /\ label \in CompositeNames => mode = "emotion" /\ app.emotion_system_enabled

\* the part of C37 that holds: a mode other than emotion gives a legacy name,
\* and a composite label is forwarded only in emotion mode
C37_LegacyModesLegacyNames ==
    pc = "done" =>
        /\ mode # "emotion" => label \in LegacyNames
        /\ label \in CompositeNames => mode = "emotion"
        /\ mode = "emotion" => label \in CompositeNames

-----------------------------------------------------------------------------
(* The network baseline while the sampler and the classifier are called *)

\* one sample and one pair of arguments for the classifier calls
InitBaseline ==
    /\ pc = "input"
    /\ mode = "emotion"
    /\ thresholds = DefaultEmotionThresholds
    /\ stats = SystemStats(75, 80, Rat(5, 1), 0)
    /\ label = "none"
    /\ analysis = NoAnalysis
    /\ calls = NoCalls
    /\ SamplerConstructed
    /\ AnimIdle

NextBaseline ==
    \/ Elapse
    \/ ClockSetBack
    \/ Traffic(1, 0)
    \/ \E net_read \in NetReads : GetSystemStats(Read(1), Read(1), net_read)
    \/ Returned
    \/ CallClassify
    \/ CallAnalyse

SpecBaseline == InitBaseline /\ [][NextBaseline]_vars

\* the stored counters and the stored time are both absent, or are those of
\* the latest read that was answered
BaselineIsOneRead ==
    /\ last_network_io = None <=> last_network_time = None
    /\ last_network_io # None =>
          /\ hist.last_read # None
          /\ <<last_network_io[1], last_network_io[2], last_network_time[1]>>
                = hist.last_read

\* C38: the stored counter pair and the stored timestamp are both absent or
\* both present and of the same read; they change only in a sample whose
\* network read was answered, both together and to that read; a failed
\* network read, a classifier call and every other step leave them as they
\* are.
C38_BaselineReplacedAsUnit ==
    /\ []BaselineIsOneRead
    /\ [][/\ (last_network_io' # last_network_io
                 \/ last_network_time' # last_network_time) =>
                /\ ev'.op = "stats"
                /\ ev'.net = "ok"
                /\ last_network_io' = <<os_sent, os_recv>>
                /\ last_network_time' = <<clock>>
          /\ (ev'.op = "stats" /\ ev'.net # "ok") =>
                /\ last_network_io' = last_network_io
                /\ last_network_time' = last_network_time
          /\ (calls'.n # calls.n) =>
                /\ last_network_io' = last_network_io
                /\ last_network_time' = last_network_time]_vars

\* a failed read after the baseline was replaced by a sample, with
\* classifier calls made in between
C38_Witness ==
    /\ ev.op = "stats"
    /\ ev.net # "ok"
    /\ calls.n > 0
    /\ last_network_io # None
    /\ last_network_io = ev.pre_io
    /\ last_network_time = ev.pre_tm
    /\ last_network_time # <<Epoch>>

\* no baseline is held: construction could not read the counters
C38_WitnessAbsent ==
    /\ ev.op = "stats"
    /\ ev.net = "ok"
    /\ last_network_io = None
    /\ last_network_time = None

====
